---- MODULE Spec2Model ----
(***************************************************************************)
(* Device credential lifecycle of the Spotify voice bridge: the auth state *)
(* cache (_auth_states), the OAuth2 callback, the credential store         *)
(* (DeviceAuth) and the access gate (get_valid_token), as served by the    *)
(* threaded Flask server of run.py.  Every request handler is a thread; a  *)
(* step of the model is one access to the shared dict, the database or the *)
(* remote token endpoint.                                                  *)
(* The command interpreter (parse_command), the command executor          *)
(* (execute_command), the expiry test and the setter of a record           *)
(* (is_token_expired, set_tokens), the field encryption (encrypt, decrypt) *)
(* and the sweep of old records (delete_expired_devices) are functions of  *)
(* their arguments and of the table; each also has a specification of its  *)
(* own that calls it on every argument of a bounded set.                   *)
(* SpecWorkers is the same service run as several worker processes, each   *)
(* with a dict _auth_states of its own.                                    *)
(***************************************************************************)
EXTENDS Integers, Sequences, FiniteSets, TLC

\* ---------------------------------------------------------------- bounds
MaxTicks == 2           \* advances of the clock in one behaviour
MaxRequests == 3        \* requests served in one behaviour
MaxWords == 3           \* words of a text given to parse_command alone
MaxAuthRequests == 4    \* requests served in SpecAuthLong, the longer authorization runs
MaxGateRequests == 2    \* requests served in SpecGate, the access gate on every answer
MaxChars == 2           \* characters of a string given to encrypt alone

Handlers == {1, 2}                \* worker threads (threaded=True)
Devices == {"D1", "D2"}
StateTokens == {"s1", "s2"}       \* values secrets.token_urlsafe(4) may return
TickSteps == {300}                \* seconds the clock advances in one step
\* token pairs the endpoint grants; on refresh the refresh token may be Missing
Grants == {[access_token |-> "a1", refresh_token |-> "r1"],
           [access_token |-> "a2", refresh_token |-> "r2"]}
ExpiresIn == {0, 60, 360}         \* expires_in values of the token endpoint
Scopes == {"user-read-playback-state user-modify-playback-state"}
Descriptions == {"Invalid authorization code"}
\* query parameters of the redirect back from the authorization page
Errors == {"access_denied"}
ErrorDescriptions == {"The user denied the request"}
Codes == {"code"}
Texts == {<<"please", "pause">>, <<"play", "album", "abbey", "road">>,
          <<"turn", "off", "the", "lights">>}

\* ------------------------------------------------------ program constants
AUTH_STATE_TTL == 300
EXPIRY_BUFFER == 60
FIELD_ENCRYPTION_KEY == "k1"
OtherKey == "k2"                  \* a key the application is not configured with
DAY == 86400                      \* seconds of timedelta(days=1)

None == "None"
Missing == "Missing"              \* a key absent from a JSON body
Empty == ""                       \* the empty string
NotStr == "NotStr"                \* a JSON value that is not a string

VARIABLES
    now,          \* time.time() / datetime.utcnow(), in seconds
    config,       \* current_app.config: SPOTIFY_CLIENT_ID, SPOTIFY_CLIENT_SECRET
    auth_states,  \* _auth_states: state -> {device_id, created_at}
    db,           \* table device_auth: device_id -> committed row
    req,          \* per handler thread: the request it serves and its locals
    issued,       \* history: every state _generate_state has returned
    owing,        \* history: issued states no _validate_state has been called on
    quota,        \* number of requests the server will still accept
    ticks         \* number of advances of the clock

vars == <<now, config, auth_states, db, req, issued, owing, quota, ticks>>

\* ------------------------------------------------------------ encryption
\* A Fernet token: the payload, the key it was produced under and the
\* payload its HMAC was computed over.  A token is intact while the HMAC
\* covers the payload it carries.
NoCipher == [key |-> None, data |-> None, signed |-> None]

\* bytes are the sequence of their values; b"" and a value that is not bytes
NoBytes == [key |-> None, data |-> <<>>, signed |-> <<>>]

NotBytes == [key |-> NotStr, data |-> <<>>, signed |-> <<>>]

\* Fernet(key).encrypt(data.encode("utf-8"))
Fernet(key, data) == [key |-> key, data |-> data, signed |-> data]

encrypt(data) == Fernet(FIELD_ENCRYPTION_KEY, data)

\* fernet.decrypt raises InvalidToken: the HMAC does not verify under the
\* configured key
DecryptFails(token) ==
    token.key # FIELD_ENCRYPTION_KEY \/ token.signed # token.data

decrypt(token) == token.data

\* encryption.py lines 51-55: what encrypt raises before it calls Fernet
EncryptRaises(data) ==
    IF data \in {None, NotStr} THEN "TypeError"
    ELSE IF data = Empty THEN "ValueError"
    ELSE None

\* ------------------------------------------------------ credential store
NoRecord ==
    [encrypted_access_token |-> NoCipher, encrypted_refresh_token |-> NoCipher,
     expires_at |-> -1, scope |-> None, updated_at |-> -1]

\* models.py lines 59-60: `not all([...])`, an empty or zero argument
SetTokensRejects(access_token, refresh_token, expires_in, scope) ==
    access_token \in {None, Missing, Empty}
        \/ refresh_token \in {None, Missing, Empty}
        \/ expires_in = 0 \/ scope \in {None, Missing, Empty}

\* models.py lines 63-70: the assignments of set_tokens
set_tokens(access_token, refresh_token, expires_in, scope, t) ==
    [encrypted_access_token |-> encrypt(access_token),
     encrypted_refresh_token |-> encrypt(refresh_token),
     expires_at |-> t + expires_in,
     scope |-> scope,
     updated_at |-> t]

\* variant: the arguments are looked at after the assignments
AssignsFirst(device, access_token, refresh_token, expires_in, scope, t) ==
    [raised |-> IF SetTokensRejects(access_token, refresh_token, expires_in, scope)
                THEN "ValueError" ELSE None,
     device |-> set_tokens(access_token, refresh_token, expires_in, scope, t)]

\* variant: the access token of the answer is not stored
KeepsAccessToken(device, access_token, refresh_token, expires_in, scope, t) ==
    [raised |-> None,
     device |-> [set_tokens(access_token, refresh_token, expires_in, scope, t)
                    EXCEPT !.encrypted_access_token = device.encrypted_access_token]]

\* models.py lines 46-80: device.set_tokens(...) on a row of the session.
\* The arguments are checked before anything is assigned; an exception of
\* the second encrypt leaves the first assignment on the object.
SetTokens(device, access_token, refresh_token, expires_in, scope, t) ==
    IF SetTokensRejects(access_token, refresh_token, expires_in, scope)
    THEN [raised |-> "ValueError", device |-> device]
    ELSE IF EncryptRaises(access_token) # None
    THEN [raised |-> EncryptRaises(access_token), device |-> device]
    ELSE IF EncryptRaises(refresh_token) # None
    THEN [raised |-> EncryptRaises(refresh_token),
          device |-> [device EXCEPT
                        !.encrypted_access_token = encrypt(access_token)]]
    ELSE [raised |-> None,
          device |-> set_tokens(access_token, refresh_token, expires_in, scope, t)]

\* variant: the comparison with the buffered expiry is strict
StrictlyExpired(rec, t) ==
    IF rec.expires_at = -1 THEN TRUE ELSE t > rec.expires_at - EXPIRY_BUFFER

\* models.py lines 120-143; a row without expires_at reads as expired
is_token_expired(rec, t) ==
    IF rec.expires_at = -1 THEN TRUE ELSE t >= rec.expires_at - EXPIRY_BUFFER

\* ------------------------------------------------------ auth state cache
\* id is history: the index in issued of the call that wrote the entry
NoEntry == [device_id |-> None, created_at |-> -1, id |-> 0]

IsExpiredState(data, t) == t - data.created_at > AUTH_STATE_TTL

\* the states _cleanup_expired_states collects
ExpiredStates(cache, t) ==
    {s \in StateTokens : cache[s] # NoEntry /\ IsExpiredState(cache[s], t)}

DelRaises(cache, s) == cache[s] = NoEntry

\* ---------------------------------------------------- command interpreter
\* A text is the sequence of its words, the runs of characters between
\* whitespace: a word may be written with capitals ("Pause"), may end in a
\* punctuation mark ("imagine!"), and a mark may stand alone (".").  Gap
\* stands for the whitespace that the removal of a filler leaves between
\* its neighbours.
Gap == ""

\* line 39: str.lower(), on the words written with capitals
lower(words) ==
    [i \in DOMAIN words |->
        CASE words[i] = "Pause" -> "pause"
          [] words[i] = "Play" -> "play"
          [] OTHER -> words[i]]

FillerWords ==
    << <<"please">>, <<"can", "you">>, <<"could", "you">>, <<"would", "you">>,
       <<"spotify">>, <<"por", "favor">>, <<"você", "pode">>, <<"voce", "pode">>,
       <<"poderia">>, <<"seria", "possível">>, <<"seria", "possivel">> >>

\* variant: only the first word is compared
StartsWithWord(words, phrase) ==
    words # <<>> /\ phrase # <<>> /\ words[1] = phrase[1]

StartsWith(words, phrase) ==
    /\ Len(words) >= Len(phrase)
    /\ SubSeq(words, 1, Len(phrase)) = phrase

RECURSIVE Replace(_, _)
\* str.replace(filler, ""): every occurrence, leftmost first
Replace(words, filler) ==
    IF words = <<>> THEN <<>>
    ELSE IF StartsWith(words, filler)
    THEN <<Gap>> \o Replace(SubSeq(words, Len(filler) + 1, Len(words)), filler)
    ELSE <<Head(words)>> \o Replace(Tail(words), filler)

\* variant: the fillers stay in the text
KeepFillers(words, i) == words

RECURSIVE Normalize(_, _)
\* lines 39-54: the fillers are removed one after the other
Normalize(words, i) ==
    IF i > Len(FillerWords) THEN words
    ELSE Normalize(Replace(words, FillerWords[i]), i + 1)

\* whitespace separates words whatever its length: \s+ in the patterns, strip()
Words(words) == SelectSeq(words, LAMBDA w : w # Gap)

PlayVerbs == {"play", "tocar", "ouvir", "escutar"}

\* COMMAND_KEYWORDS_REGEX, lines 8-18, in the order of the dict
Prefixes(command) ==
    CASE command = "play_album" ->
           {<<v, n>> : v \in PlayVerbs, n \in {"album", "álbum"}}
      [] command = "play_artist" ->
           {<<v, n>> : v \in PlayVerbs, n \in {"artist", "artista"}}
      [] command = "play_track" ->
           {<<v, n>> : v \in PlayVerbs, n \in {"música", "musica"}}
      [] command = "play_playlist" -> {<<v, "playlist">> : v \in PlayVerbs}
      [] command = "add_to_queue" ->
           {<<"add", "to", "queue">>, <<"queue", "song">>,
            <<"adicionar", "na", "fila">>, <<"colocar", "na", "fila">>}
      [] command = "play" ->
           {<<w>> : w \in {"play", "resume", "continue", "retomar",
                           "continuar", "tocar"}}
      [] command = "pause" ->
           {<<w>> : w \in {"pause", "stop", "hold", "pausar", "parar",
                           "segurar"}}
      [] command = "next" ->
           {<<w>> : w \in {"next", "skip", "forward", "próxima", "proxima",
                           "pular", "avançar", "avancar"}}
      [] command = "previous" ->
           {<<w>> : w \in {"previous", "back", "rewind", "last", "anterior",
                           "voltar", "retroceder", "última", "ultima"}}

Commands ==
    <<"play_album", "play_artist", "play_track", "play_playlist",
      "add_to_queue", "play", "pause", "next", "previous">>

HasGroup(command) ==
    command \in {"play_album", "play_artist", "play_track", "play_playlist",
                 "add_to_queue"}

\* variant: the patterns without a group are not anchored at the end
MatchesStart(command, words) ==
    \E prefix \in Prefixes(command) :
        /\ StartsWith(words, prefix)
        /\ HasGroup(command) => Len(words) > Len(prefix)

\* re.search(pattern, normalized_text): a pattern with a group needs a name
\* after its prefix, a pattern without one needs the text to end there
Matches(command, words) ==
    \E prefix \in Prefixes(command) :
        /\ StartsWith(words, prefix)
        /\ IF HasGroup(command) THEN Len(words) > Len(prefix)
           ELSE Len(words) = Len(prefix)

Punctuation == {".", "!", "?", ",", ";"}

\* a word without the marks it ends in
Unmarked(word) ==
    CASE word = "imagine!" -> "imagine"
      [] word = "road." -> "road"
      [] OTHER -> word

\* line 62, rstrip(".!?,;"): the marks at the end of the last word go, and
\* with them a last word that is nothing but marks; the whitespace before
\* it stops the stripping
RStrip(name) ==
    IF name = <<>> THEN <<>>
    ELSE IF name[Len(name)] \in Punctuation
    THEN SubSeq(name, 1, Len(name) - 1)
    ELSE [name EXCEPT ![Len(name)] = Unmarked(@)]

Group(command, words) ==
    LET prefix == CHOOSE q \in Prefixes(command) : StartsWith(words, q)
    IN RStrip(SubSeq(words, Len(prefix) + 1, Len(words)))

\* a Python value of the command handler: None, a str (its words) or a
\* (command, name) tuple whose name may be None
PyNone ==
    [type |-> "NoneType", str |-> <<>>, command |-> None, has_name |-> FALSE,
     name |-> <<>>]

PyStr(words) ==
    [type |-> "str", str |-> words, command |-> None, has_name |-> FALSE,
     name |-> <<>>]

PyTuple(command, has_name, name) ==
    [type |-> "tuple", str |-> <<>>, command |-> command, has_name |-> has_name,
     name |-> name]

\* bool(value): None and the empty str are false
Truthy(value) == value.type = "tuple" \/ (value.type = "str" /\ value.str # <<>>)

RECURSIVE FirstMatch(_, _)
FirstMatch(words, i) ==
    IF i > Len(Commands) THEN PyNone
    ELSE IF Matches(Commands[i], words)
    THEN IF HasGroup(Commands[i])
         THEN PyTuple(Commands[i], TRUE, Group(Commands[i], words))
         ELSE PyTuple(Commands[i], FALSE, <<>>)
    ELSE FirstMatch(words, i + 1)

\* lines 39-54: the text the patterns are tried on
Normalized(text) == Words(Normalize(lower(text), 1))

\* lines 31-65
parse_command(text) ==
    IF text = <<>> THEN PyNone
    ELSE FirstMatch(Normalized(text), 1)

\* ------------------------------------------------------- command executor
\* an item of a search answer
Items ==
    {[uri |-> "spotify:1", name |-> "Imagine"],
     [uri |-> "spotify:2", name |-> "Imagine - Remastered"]}

NoItem == [uri |-> None, name |-> None]

\* str(e) of what a call of the spotipy client may raise
RemoteErrors == {"SpotifyException", "ReadTimeout"}

\* what the remote service does with the calls of one command: the first
\* item of the answer to the field-qualified search and to the search on
\* the raw name, and which of the calls, if any, raises (fails = its position)
Remotes ==
    [qualified : Items \cup {NoItem}, fallback : Items \cup {NoItem},
     fails : 0 .. 3, error : RemoteErrors]

NoRemote == [qualified |-> NoItem, fallback |-> NoItem, fails |-> 0, error |-> None]

\* a call of the client: sp.search(q, limit=1, type) or a player call
NoQuery == [field |-> None, name |-> <<>>, artist |-> <<>>]

Search(q, type) == [call |-> "search", q |-> q, type |-> type, uri |-> None]

Player(call, uri) == [call |-> call, q |-> NoQuery, type |-> None, uri |-> uri]

\* the dict execute_command returns.  The message is kept as its fixed
\* text, the name of the request or of the item found, and the str(e) that
\* the text is formatted with; remote is the calls made, in order.
Outcome(success, command, message, name, detail, remote) ==
    [raised |-> FALSE, success |-> success, command |-> command,
     message |-> message, name |-> name, detail |-> detail, remote |-> remote]

\* an exception leaves the block
Raised(detail, remote) ==
    [raised |-> TRUE, success |-> FALSE, command |-> PyNone,
     message |-> None, name |-> PyNone, detail |-> detail, remote |-> remote]

NoOutcome == Outcome(FALSE, PyNone, None, PyNone, None, <<>>)

\* play / pause / next / previous, lines 76-95
Transport(command, call, message, env) ==
    IF env.fails = 1 THEN Raised(env.error, <<Player(call, None)>>)
    ELSE Outcome(TRUE, command, message, PyNone, None, <<Player(call, None)>>)

\* lines 104-114: " by ", " por ", " de ", the first of the list that the
\* name contains, split the name at its first occurrence
Separators == <<"by", "por", "de">>

Inner(words, sep) == {i \in 2 .. Len(words) - 1 : words[i] = sep}

TrackQuery(words) ==
    LET found == {k \in DOMAIN Separators : Inner(words, Separators[k]) # {}}
    IN IF found = {} THEN [field |-> "track", name |-> words, artist |-> <<>>]
       ELSE LET k == CHOOSE k \in found : \A j \in found : k <= j
                at == Inner(words, Separators[k])
                i == CHOOSE i \in at : \A j \in at : i <= j
            IN [field |-> "track", name |-> SubSeq(words, 1, i - 1),
                artist |-> SubSeq(words, i + 1, Len(words))]

\* lines 116-119, 160, 187, 214: the field-qualified query
Qualified(type, words) ==
    IF type = "track" THEN TrackQuery(words)
    ELSE [field |-> type, name |-> words, artist |-> <<>>]

\* variant: the second search asks for the track field again
Requalified(words) == [field |-> "track", name |-> words, artist |-> <<>>]

\* line 123 and its likes: the raw name
Unqualified(words) == [field |-> None, name |-> words, artist |-> <<>>]

\* lines 133-150 and their likes: the player call on the item found
Found(command, item, call, message, calls, n, env) ==
    LET all == Append(calls, Player(call, item.uri))
    IN IF env.fails = n THEN Raised(env.error, all)
       ELSE Outcome(TRUE, command, message, PyNone, item.name, all)

\* variant: the message does not say what was looked for
NotFoundUnnamed(command, not_found, name, calls) ==
    Outcome(FALSE, command, not_found, PyNone, None, calls)

\* lines 124-131 and their likes: f"Track '{name}' not found"
NotFound(command, not_found, name, calls) ==
    Outcome(FALSE, command, not_found, name, None, calls)

\* lines 97-237: qualified search, unqualified search, playback or queue call
Named(command, name, type, no_name, not_found, call, message, env) ==
    LET first == Search(Qualified(type, name.str), type)
        second == Search(Unqualified(name.str), type)
    IN IF ~Truthy(name)
       THEN Outcome(FALSE, command, no_name, PyNone, None, <<>>)
       ELSE IF env.fails = 1 THEN Raised(env.error, <<first>>)
       ELSE IF env.qualified # NoItem
       THEN Found(command, env.qualified, call, message, <<first>>, 2, env)
       ELSE IF env.fails = 2 THEN Raised(env.error, <<first, second>>)
       ELSE IF env.fallback # NoItem
       THEN Found(command, env.fallback, call, message, <<first, second>>, 3, env)
       ELSE NotFound(command, not_found, name, <<first, second>>)

NotAuthenticated == "Device not authenticated or token expired"

\* variant: the client is built on whatever the gate returned
AnyClient(token) == NoOutcome

\* lines 21-28: raises when get_valid_token returned no token, else builds
\* the client
get_spotify_client(token) ==
    IF token = None THEN Raised(NotAuthenticated, <<>>) ELSE NoOutcome

\* lines 75-240: the block under `try`
Body(command, name, token, env) ==
    IF get_spotify_client(token).raised THEN get_spotify_client(token)
    ELSE IF command = PyStr(<<"play">>)
    THEN Transport(command, "start_playback", "Playback resumed", env)
    ELSE IF command = PyStr(<<"pause">>)
    THEN Transport(command, "pause_playback", "Playback paused", env)
    ELSE IF command = PyStr(<<"next">>)
    THEN Transport(command, "next_track", "Skipped to next track", env)
    ELSE IF command = PyStr(<<"previous">>)
    THEN Transport(command, "previous_track", "Went to previous track", env)
    ELSE IF command = PyStr(<<"play_track">>)
    THEN Named(command, name, "track", "No track name found", "Track not found",
               "start_playback", "Playing track", env)
    ELSE IF command = PyStr(<<"add_to_queue">>)
    THEN Named(command, name, "track", "No track name found", "Track not found",
               "add_to_queue", "Added to the queue", env)
    ELSE IF command = PyStr(<<"play_artist">>)
    THEN Named(command, name, "artist", "No artist name found",
               "Artist not found", "start_playback", "Playing artist", env)
    ELSE IF command = PyStr(<<"play_album">>)
    THEN Named(command, name, "album", "No album name found",
               "Album not found", "start_playback", "Playing album", env)
    ELSE IF command = PyStr(<<"play_playlist">>)
    THEN Named(command, name, "playlist", "No playlist name found",
               "Playlist not found", "start_playback", "Playing playlist", env)
    ELSE Outcome(FALSE, command, "Unknown command", PyNone, None, <<>>)

\* variant: the exception goes on to the caller
Propagate(command, e) == e

\* lines 241-246: `except Exception as e`
Except(command, e) ==
    Outcome(FALSE, command, "Error executing", PyNone, e.detail, e.remote)

\* lines 68-246; command and name are the values the caller passes, token
\* is what get_valid_token returns to get_spotify_client
execute_command(command, name, token, env) ==
    LET result == Body(command, name, token, env)
    IN IF result.raised THEN Except(command, result) ELSE result

\* --------------------------------------------------------------- handlers
NoResult == [status |-> None, value |-> None, message |-> None, detail |-> None,
             margin |-> 0, expired |-> FALSE, remote |-> <<>>,
     count |-> 0]

Raise(exc, message, detail) ==
    [status |-> exc, value |-> None, message |-> message, detail |-> detail,
     margin |-> 0, expired |-> FALSE, remote |-> <<>>,
     count |-> 0]

Return(status, value) ==
    [status |-> status, value |-> value, message |-> None, detail |-> None,
     margin |-> 0, expired |-> FALSE, remote |-> <<>>,
     count |-> 0]

NoGrant ==
    [access_token |-> None, refresh_token |-> None, scope |-> None,
     stored |-> None]

NoPage == [status |-> 0, error_message |-> None, detail |-> None]

NoArgs == [access_token |-> None, refresh_token |-> None, expires_in |-> 0,
           scope |-> None]

NoResponse == [status |-> 0, desc |-> None, expires_in |-> 0, complete |-> FALSE]

Idle ==
    [op |-> "none", pc |-> "idle", device_id |-> None, state |-> None,
     state_data |-> NoEntry, expired_states |-> {}, device |-> NoRecord,
     calls |-> 0, result |-> NoResult, stage |-> 0, text |-> <<>>,
     command |-> PyNone, token |-> None,
     \* history of the call, read by the properties only:
     \*   owed       devices the state was issued for and not yet asked for
     \*   later      every issue of the state has been asked for before
     \*   raced      another _validate_state on the state overlapped this one
     \*   got        the issue (index in issued) whose device id was returned
     \*   age_check  what the TTL test at line 78 found
     \*   bad_state  the state was absent or over age when the call began
     \*   upstream   the answer of the token endpoint
     \*   fault      the commit failed
     \*   refreshed  how refresh_token_for_device ended
     \*   error      the error parameter of the callback request
     \*   params     the callback request carried both code and state
     \*   name       the name argument of a direct call of execute_command
     \*   env        what the remote service did during a direct call of
     \*              execute_command
     \*   outcome    what execute_command returned
     \*   before     the row as it was when the call began
     \*   args       the arguments of a direct call of set_tokens
     \*   raised     the exception a direct call ended with
     \*   days       the argument of delete_expired_devices
     \*   granted    the tokens and the scope of the answer the refresh
     \*              committed
     \*   page       the page the /auth/callback route answered with
     \*   carried    the state parameter of a request the route turned away
     \*   began      how many states had been issued when the
     \*              _generate_state under way was called
     \*   plain      the argument of a direct call of encrypt
     \*   cipher     what encrypt returned
     \*   forge      what was done to the token before decrypt was called
     \*   presented  the token decrypt was called on
     \*   back       what decrypt returned
     \*   txn        the transaction of the session when the operation ended
     \*              on a failed commit: "rolled_back" or left "failed"
     owed |-> {}, later |-> FALSE, got |-> 0, age_check |-> "na",
     raced |-> FALSE, bad_state |-> FALSE, upstream |-> NoResponse,
     fault |-> FALSE, refreshed |-> "na", error |-> None, params |-> FALSE,
     name |-> PyNone, env |-> NoRemote, outcome |-> NoOutcome,
     before |-> NoRecord, args |-> NoArgs, raised |-> None, days |-> 0,
     txn |-> "none", plain |-> PyNone, cipher |-> NoBytes, forge |-> "none",
     presented |-> NoBytes, back |-> PyNone,
     page |-> NoPage, granted |-> NoGrant, began |-> 0, carried |-> None]

Free(t) == req[t].pc \in {"idle", "done"}

\* the handler is inside _validate_state(s), lines 69-87
Validating(r, s) ==
    r.op = "callback" /\ r.state = s /\ r.pc \in {"get", "del_expired", "del_valid"}

\* A handler that has returned holds its response for one step: the next
\* step of the server finds the response delivered and the thread idle.
\* A callback that begins while another thread is inside _validate_state on
\* the same state is recorded in that thread's history (raced).
Step(t, r) ==
    req' = [u \in Handlers |->
              IF u = t THEN r
              ELSE IF req[u].pc = "done" THEN Idle
              ELSE IF Free(t) /\ Validating(req[u], r.state)
              THEN [req[u] EXCEPT !.raced = TRUE]
              ELSE req[u]]

\* The server hands a new request to a free thread.  Threads are
\* interchangeable, so it is the first free one.
Accept(t, r) ==
    /\ Free(t)
    /\ \A u \in Handlers : Free(u) => t <= u
    /\ quota > 0
    /\ quota' = quota - 1
    /\ Step(t, r)

\* routes.py lines 298-327: the page /auth/callback answers with, from what
\* process_callback returned or raised.  A ValueError is shown with str(e),
\* the message and what it carries after the colon; any other exception
\* with a fixed text.  The route does not read DEBUG.  The pages of the
\* early returns (lines 277-296) are pages already.
AuthCallbackPage(result) ==
    IF result.status = "ok"
    THEN [status |-> 200, error_message |-> None, detail |-> None]
    ELSE IF result.status = "ValueError"
    THEN [status |-> 400, error_message |-> result.message,
          detail |-> result.detail]
    ELSE IF result.status = "400"
    THEN [status |-> 400, error_message |-> result.message,
          detail |-> result.detail]
    ELSE [status |-> 500, error_message |-> "An unexpected error occurred",
          detail |-> None]

\* the handler returns: its locals and its database session are dropped
Finish(r, result) ==
    [r EXCEPT !.pc = "done", !.result = result, !.state_data = NoEntry,
              !.expired_states = {}, !.device = NoRecord, !.token = None,
              !.began = 0,
              !.page = IF r.op = "callback" THEN AuthCallbackPage(result)
                       ELSE NoPage]

\* the environment may leave the client id or the client secret unset
Configs ==
    {[SPOTIFY_CLIENT_ID |-> "cid", SPOTIFY_CLIENT_SECRET |-> "secret"],
     [SPOTIFY_CLIENT_ID |-> "cid", SPOTIFY_CLIENT_SECRET |-> None],
     [SPOTIFY_CLIENT_ID |-> None, SPOTIFY_CLIENT_SECRET |-> None]}

Init ==
    /\ now = 0
    /\ config \in Configs
    /\ auth_states = [s \in StateTokens |-> NoEntry]
    /\ db = [d \in Devices |-> NoRecord]
    /\ req = [t \in Handlers |-> Idle]
    /\ issued = <<>>
    /\ owing = [s \in StateTokens |-> {}]
    /\ quota = MaxRequests
    /\ ticks = 0

InitLong ==
    /\ now = 0
    /\ config \in Configs
    /\ auth_states = [s \in StateTokens |-> NoEntry]
    /\ db = [d \in Devices |-> NoRecord]
    /\ req = [t \in Handlers |-> Idle]
    /\ issued = <<>>
    /\ owing = [s \in StateTokens |-> {}]
    /\ quota = MaxAuthRequests
    /\ ticks = 0

\* the server after one /auth/url request: generate_spotify_auth_url has
\* stored a state for device D1 (auth_service.py lines 51-56), so the client
\* id is set
InitPending ==
    /\ now = 0
    /\ config \in {c \in Configs : c.SPOTIFY_CLIENT_ID # None}
    /\ auth_states = [s \in StateTokens |->
          IF s = "s1" THEN [device_id |-> "D1", created_at |-> 0, id |-> 1]
          ELSE NoEntry]
    /\ db = [d \in Devices |-> NoRecord]
    /\ req = [t \in Handlers |-> Idle]
    /\ issued = <<[state |-> "s1", asked |-> FALSE, obtained |-> 0]>>
    /\ owing = [s \in StateTokens |->
          IF s = "s1" THEN {[device_id |-> "D1", at |-> 0]} ELSE {}]
    /\ quota = MaxRequests
    /\ ticks = 0

\* no record yet and one authorization pending, for the life of a record:
\* its creation by a callback, then the access gate
InitRecords ==
    /\ now = 0
    /\ config \in {c \in Configs : c.SPOTIFY_CLIENT_ID # None}
    /\ auth_states = [s \in StateTokens |->
          IF s = "s1" THEN [device_id |-> "D1", created_at |-> 0, id |-> 1]
          ELSE NoEntry]
    /\ db = [d \in Devices |-> NoRecord]
    /\ req = [t \in Handlers |-> Idle]
    /\ issued = <<[state |-> "s1", asked |-> FALSE, obtained |-> 0]>>
    /\ owing = [s \in StateTokens |->
          IF s = "s1" THEN {[device_id |-> "D1", at |-> 0]} ELSE {}]
    /\ quota = MaxGateRequests
    /\ ticks = 0

\* the records a callback may have committed before the server started;
\* devices are interchangeable, the one that may hold a record is D1
StoredRecords ==
    {set_tokens("a1", "r1", e, sc, 0) : e \in ExpiresIn \ {0}, sc \in Scopes}

InitToken ==
    /\ now = 0
    /\ config = [SPOTIFY_CLIENT_ID |-> "cid", SPOTIFY_CLIENT_SECRET |-> "secret"]
    /\ auth_states = [s \in StateTokens |-> NoEntry]
    /\ \E row \in StoredRecords \cup {NoRecord} :
          db = [d \in Devices |-> IF d = "D1" THEN row ELSE NoRecord]
    /\ req = [t \in Handlers |-> Idle]
    /\ issued = <<>>
    /\ owing = [s \in StateTokens |-> {}]
    /\ quota = MaxRequests
    /\ ticks = 0

\* rows whose refresh token was encrypted under a key that is no longer the
\* configured one
ForeignRecords ==
    {[row EXCEPT !.encrypted_refresh_token = Fernet(OtherKey, "r1")] :
        row \in StoredRecords}

\* the access gate on a device that may hold a row of either kind, while an
\* authorization of another device is pending
InitGate ==
    /\ now = 0
    /\ config = [SPOTIFY_CLIENT_ID |-> "cid", SPOTIFY_CLIENT_SECRET |-> "secret"]
    /\ auth_states = [s \in StateTokens |->
          IF s = "s1" THEN [device_id |-> "D2", created_at |-> 0, id |-> 1]
          ELSE NoEntry]
    /\ \E row \in StoredRecords \cup ForeignRecords \cup {NoRecord} :
          db = [d \in Devices |-> IF d = "D1" THEN row ELSE NoRecord]
    /\ req = [t \in Handlers |-> Idle]
    /\ issued = <<[state |-> "s1", asked |-> FALSE, obtained |-> 0]>>
    /\ owing = [s \in StateTokens |->
          IF s = "s1" THEN {[device_id |-> "D2", at |-> 0]} ELSE {}]
    /\ quota = MaxGateRequests
    /\ ticks = 0

Tick(step) ==
    /\ ticks < MaxTicks
    /\ ticks' = ticks + 1
    /\ now' = now + step
    /\ owing' = [s \in StateTokens |->
          {e \in owing[s] : now' - e.at <= AUTH_STATE_TTL}]
    /\ req' = [u \in Handlers |-> IF req[u].pc = "done" THEN Idle ELSE req[u]]
    /\ UNCHANGED <<config, auth_states, db, issued, quota>>

\* ------------------------------------------- generate_spotify_auth_url
\* lines 103-106, then _generate_state -> _cleanup_expired_states lines 25-32
GenerateAuthUrl(t, d) ==
    /\ Accept(t,
          IF config.SPOTIFY_CLIENT_ID = None
          THEN Finish([Idle EXCEPT !.op = "auth_url", !.device_id = d],
                      Raise("ValueError", "SPOTIFY_CLIENT_ID not configured", None))
          ELSE [Idle EXCEPT !.op = "auth_url", !.device_id = d,
                            !.expired_states = ExpiredStates(auth_states, now),
                            !.began = Len(issued),
                            !.pc = "cleanup"])
    /\ UNCHANGED <<now, config, auth_states, db, issued, owing, ticks>>

\* lines 34-35: one `del _auth_states[state]` of the loop; the loop visits the
\* collected states in dict order, here in any order
CleanupDelete(t, s) ==
    /\ req[t].pc = "cleanup"
    /\ s \in req[t].expired_states
    /\ IF DelRaises(auth_states, s)
       THEN /\ Step(t, Finish(req[t], Raise("KeyError", s, None)))
            /\ UNCHANGED auth_states
       ELSE /\ auth_states' = [auth_states EXCEPT ![s] = NoEntry]
            /\ Step(t, [req[t] EXCEPT !.expired_states = @ \ {s}])
    /\ UNCHANGED <<now, config, db, issued, owing, quota, ticks>>

\* lines 51-56 and 110-121: the new state is any value of the generator
StoreState(t, s) ==
    /\ req[t].pc = "cleanup"
    /\ req[t].expired_states = {}
    /\ auth_states' = [auth_states EXCEPT ![s] =
          [device_id |-> req[t].device_id, created_at |-> now,
           id |-> Len(issued) + 1]]
    /\ issued' = Append(issued, [state |-> s, asked |-> FALSE, obtained |-> 0])
    /\ owing' = [owing EXCEPT ![s] =
          @ \cup {[device_id |-> req[t].device_id, at |-> now]}]
    /\ Step(t, Finish(req[t], Return("url", s)))
    /\ UNCHANGED <<now, config, db, quota, ticks>>

\* --------------------------------------------------------- auth_callback
\* variant: the page shows the text of the last handler of the route
UnexpectedError(error, error_description) ==
    [Return("500", None) EXCEPT !.message = "An unexpected error occurred"]

\* routes.py lines 277-286: the page of a redirect that carries `error`; the
\* message f"{error}: {error_description}" is kept as its two parts
RemoteError(error, error_description) ==
    [Return("400", None) EXCEPT
        !.message = error,
        !.detail = IF error_description = Missing THEN "Unknown error"
                   ELSE error_description]

\* routes.py lines 273-296: the early returns of the route.  `error` is
\* looked at before code and state; without it a request that lacks code or
\* state is turned away.  The remaining requests reach process_callback
\* (StartCallback).
CallbackRejected(t, error, error_description, code, state) ==
    /\ error # None \/ code = None \/ state = None
    /\ Accept(t, Finish([Idle EXCEPT !.op = "callback", !.error = error,
                                     !.params = code # None /\ state # None,
                                     !.carried = state],
                        IF error # None
                        THEN RemoteError(error, error_description)
                        ELSE [Return("400", None) EXCEPT
                                !.message = "Missing required parameters"]))
    /\ UNCHANGED <<now, config, auth_states, db, issued, owing, ticks>>

\* ------------------------------------------------------ process_callback
StatesOf(s) == {i \in DOMAIN issued : issued[i].state = s}

\* routes.py line 299 (no error, code and state present), then line 138 ->
\* _validate_state line 69: `state not in _auth_states`
StartCallback(t, s) ==
    /\ owing' = [owing EXCEPT ![s] = {}]
    /\ issued' = [i \in DOMAIN issued |->
          IF i \in StatesOf(s) THEN [issued[i] EXCEPT !.asked = TRUE]
          ELSE issued[i]]
    /\ LET r == [Idle EXCEPT
                   !.op = "callback", !.state = s, !.pc = "get",
                   !.owed = {e.device_id : e \in owing[s]},
                   !.later = StatesOf(s) # {}
                                /\ \A i \in StatesOf(s) : issued[i].asked,
                   !.raced = \E u \in Handlers : Validating(req[u], s),
                   !.bad_state = auth_states[s] = NoEntry
                                \/ IsExpiredState(auth_states[s], now)]
       IN Accept(t,
             IF auth_states[s] = NoEntry
             THEN Finish(r, Raise("ValueError",
                                  "Invalid or expired state parameter", None))
             ELSE r)
    /\ UNCHANGED <<now, config, auth_states, db, ticks>>

\* lines 75-78: state_data = _auth_states.get(state), then the age of the
\* entry is compared with the TTL; state_data["created_at"] of None is a
\* TypeError
ValidateLookup(t) ==
    /\ req[t].pc = "get"
    /\ LET state_data == auth_states[req[t].state]
       IN Step(t, IF state_data = NoEntry
             THEN Finish(req[t], Raise("TypeError", "NoneType", None))
             ELSE IF IsExpiredState(state_data, now)
             THEN [req[t] EXCEPT !.pc = "del_expired", !.age_check = "expired",
                                 !.state_data = state_data]
             ELSE [req[t] EXCEPT !.pc = "del_valid", !.age_check = "valid",
                                 !.state_data = state_data])
    /\ UNCHANGED <<now, config, auth_states, db, issued, owing, quota, ticks>>

\* lines 79-81, then 139-140
ValidateDelExpired(t) ==
    /\ req[t].pc = "del_expired"
    /\ IF DelRaises(auth_states, req[t].state)
       THEN /\ Step(t, Finish(req[t], Raise("KeyError", req[t].state, None)))
            /\ UNCHANGED auth_states
       ELSE /\ auth_states' = [auth_states EXCEPT ![req[t].state] = NoEntry]
            /\ Step(t, Finish(req[t], Raise("ValueError",
                                  "Invalid or expired state parameter", None)))
    /\ UNCHANGED <<now, config, db, issued, owing, quota, ticks>>

\* lines 83-87, 139, then _exchange_code_for_tokens lines 186-202: the
\* request to the token endpoint leaves
ValidateDelValid(t) ==
    /\ req[t].pc = "del_valid"
    /\ IF DelRaises(auth_states, req[t].state)
       THEN /\ Step(t, Finish(req[t], Raise("KeyError", req[t].state, None)))
            /\ UNCHANGED <<auth_states, issued>>
       ELSE /\ auth_states' = [auth_states EXCEPT ![req[t].state] = NoEntry]
            /\ issued' = [issued EXCEPT ![req[t].state_data.id].obtained = @ + 1]
            /\ LET r == [req[t] EXCEPT !.device_id = req[t].state_data.device_id,
                                       !.got = req[t].state_data.id]
               IN Step(t, IF config.SPOTIFY_CLIENT_SECRET = None
                     THEN Finish(r, Raise("ValueError", "Failed to exchange code",
                                          "Missing Spotify API configuration"))
                     ELSE [r EXCEPT !.pc = "exchange", !.calls = @ + 1])
    /\ UNCHANGED <<now, config, db, owing, quota, ticks>>

\* what the token endpoint may answer: a token body, a non-200 body with or
\* without error_description, or no answer (timeout, connection error)
TokenBody(g, refresh_token, e, sc) ==
    [status |-> "200", access_token |-> g.access_token,
     refresh_token |-> refresh_token, expires_in |-> e, scope |-> sc,
     desc |-> None]

ErrorBody(status, desc) ==
    [status |-> status, access_token |-> None, refresh_token |-> None,
     expires_in |-> 0, scope |-> None, desc |-> desc]

TokenResponses ==
    {TokenBody(g, g.refresh_token, e, sc) :
        g \in Grants, e \in ExpiresIn, sc \in Scopes}
    \cup {TokenBody(g, Missing, e, sc) :
        g \in Grants, e \in ExpiresIn, sc \in Scopes}
    \cup {TokenBody([access_token |-> Missing, refresh_token |-> g.refresh_token],
                     g.refresh_token, e, sc) :
        g \in Grants, e \in {360}, sc \in Scopes}
    \cup {ErrorBody("400", desc) : desc \in Descriptions \cup {Missing}}
    \cup {ErrorBody("timeout", None)}

\* a 200 answer whose refresh_token is not a JSON string
MalformedResponses ==
    {TokenBody([access_token |-> "a2", refresh_token |-> NotStr], NotStr, 360, sc) :
        sc \in Scopes}

\* The stored tokens are a1 and r1; the endpoint answers a refresh with
\* the pair a2, r2, so a first refresh replaces the access token and a second
\* one meets the token it already holds.
RefreshResponses == {resp \in TokenResponses : resp.access_token # "a1"}

\* the commit is reached only after a 200 answer
Storage(resp) == IF resp.status = "200" THEN BOOLEAN ELSE {TRUE}

Upstream(resp) ==
    [status |-> IF resp.status = "200" THEN 200
                ELSE IF resp.status = "400" THEN 400 ELSE 0,
     desc |-> resp.desc, expires_in |-> resp.expires_in,
     complete |-> resp.access_token \notin {None, Missing}
                  /\ resp.refresh_token \notin {None, Missing}]

\* variant: the error_description of the body is not read
NoErrorDetail(resp) == "Unknown error"

\* lines 204-207: the message of the RequestException
ExchangeErrorDetail(resp) ==
    IF resp.desc = Missing THEN "Unknown error" ELSE resp.desc

\* variant: the failure is swallowed and the session's row is flushed
NoRollback(row, session_row) == session_row

\* a failed commit is rolled back: the committed row stays as it was
rollback(row, session_row) == row

\* variant: the UPDATE leaves out the refresh token column of a row that
\* is already there
KeepsColumn(row, session_row) ==
    IF row = NoRecord THEN session_row
    ELSE [session_row EXCEPT
            !.encrypted_refresh_token = row.encrypted_refresh_token]

\* db.session.commit(): the row of the session replaces the committed one
commit(row, session_row) == session_row

\* variant: the session is flushed when the request ends
Autocommit(row, session_row) == session_row

\* the session of a request ends without a commit: what it held is dropped
remove(row, session_row) == row

\* lines 203-209 and 142-170: the answer arrives, the device row is read, the
\* tokens are set on the session object and the session is committed.  The
\* commit may fail (storage fault, or the INSERT meets a row that another
\* session inserted after this one looked): storage_ok is FALSE.
ExchangeResponse(t, resp, storage_ok) ==
    /\ req[t].pc = "exchange"
    /\ LET r == [req[t] EXCEPT !.upstream = Upstream(resp)]
           d == req[t].device_id
           call == SetTokens(db[d], resp.access_token, resp.refresh_token,
                             resp.expires_in, resp.scope, now)
           device == call.device
       IN IF resp.status = "timeout"
          THEN /\ Step(t, Finish(r, Raise("ValueError", "Failed to exchange code",
                                          "RequestException")))
               /\ UNCHANGED db
          ELSE IF resp.status # "200"
          THEN /\ Step(t, Finish(r, Raise("ValueError", "Failed to exchange code",
                                          ExchangeErrorDetail(resp))))
               /\ UNCHANGED db
          ELSE IF resp.access_token = Missing
          THEN /\ Step(t, Finish(r, Raise("KeyError", "access_token", None)))
               /\ UNCHANGED db
          ELSE IF resp.refresh_token = Missing
          THEN /\ Step(t, Finish(r, Raise("KeyError", "refresh_token", None)))
               /\ UNCHANGED db
          ELSE IF call.raised = "ValueError"
          THEN /\ Step(t, Finish(r, Raise("ValueError",
                                          "All token parameters are required", None)))
               /\ UNCHANGED db
          ELSE IF call.raised # None
          THEN \* lines 156-161 are outside the try: the half-assigned object
               \* stays in the session, which ends with the request
               /\ db' = [db EXCEPT ![d] = remove(db[d], device)]
               /\ Step(t, Finish(r, Raise(call.raised, "Data must be a string", None)))
          ELSE IF storage_ok
          THEN /\ db' = [db EXCEPT ![d] = device]
               /\ Step(t, Finish(r, [Return("ok", d) EXCEPT
                                       !.expired = is_token_expired(device, now)]))
          ELSE /\ db' = [db EXCEPT ![d] = rollback(db[d], device)]
               /\ Step(t, Finish([r EXCEPT !.fault = TRUE, !.txn = "rolled_back"],
                                 Raise("ValueError",
                                       "Failed to save authentication", None)))
    /\ UNCHANGED <<now, config, auth_states, issued, owing, quota, ticks>>

\* ------------------------------- refresh_token_for_device, get_valid_token
\* what the caller of get_valid_token does with its result.  The /command
\* route (routes.py lines 390-401) answers 401 or waits for the
\* transcription; get_spotify_client (spotify_service.py lines 25-28) raises
\* or builds the client, and execute_command goes on.  The row stays loaded
\* in the session of the request.
TokenReturns(r, row, result) ==
    IF r.op = "get_valid_token" THEN Finish(r, result)
    ELSE IF r.stage = 1
    THEN IF result.status = "None" THEN Finish(r, Return("401", None))
         ELSE [r EXCEPT !.pc = "transcribe", !.device = row, !.calls = 0]
    ELSE [r EXCEPT !.pc = "execute", !.device = row, !.token = result.value]

\* variant: get_valid_token asks again when the refresh request failed
RefreshRetries(r, ok) ==
    IF r.op = "refresh"
    THEN Finish(r, Return(IF ok THEN "True" ELSE "False", None))
    ELSE IF ok THEN [r EXCEPT !.pc = "reread"]
    ELSE IF r.pc = "refresh" /\ r.calls < 3
    THEN [r EXCEPT !.calls = @ + 1]
    ELSE TokenReturns(r, r.device, Return("None", None))

\* what the caller of refresh_token_for_device does with its result:
\* the /refresh route answers with it, get_valid_token lines 300-304 goes on
RefreshReturns(r, ok) ==
    IF r.op = "refresh"
    THEN Finish(r, Return(IF ok THEN "True" ELSE "False", None))
    ELSE IF ok THEN [r EXCEPT !.pc = "reread"]
    ELSE TokenReturns(r, r.device, Return("None", None))

\* variant: a device without a row is refreshed like any other
RefreshesAbsent(r, row) ==
    [r EXCEPT !.pc = "refresh", !.device = row, !.calls = @ + 1]

\* variant: the request leaves before the refresh token is decrypted
RequestsFirst(r, row) ==
    IF row = NoRecord THEN RefreshReturns(r, FALSE)
    ELSE [r EXCEPT !.pc = "refresh", !.device = row, !.calls = @ + 1]

\* lines 222-247: the row is read, the refresh token decrypted and the
\* request to the token endpoint leaves
BeginRefresh(r, row) ==
    IF row = NoRecord THEN RefreshReturns(r, FALSE)
    ELSE IF DecryptFails(row.encrypted_refresh_token) THEN RefreshReturns(r, FALSE)
    ELSE [r EXCEPT !.pc = "refresh", !.device = row, !.calls = @ + 1]

\* lines 306-310: device.access_token
AccessToken(row, t) ==
    IF DecryptFails(row.encrypted_access_token) THEN Return("None", None)
    ELSE [Return("token", decrypt(row.encrypted_access_token)) EXCEPT
            !.margin = row.expires_at - t]

\* the /refresh route, routes.py line 524
StartRefresh(t, d) ==
    /\ Accept(t, BeginRefresh([Idle EXCEPT !.op = "refresh", !.device_id = d],
                              db[d]))
    /\ UNCHANGED <<now, config, auth_states, db, issued, owing, ticks>>

\* variant: the token is refreshed whether it has expired or not
RefreshesAlways(r, row, t) ==
    IF row = NoRecord THEN TokenReturns(r, row, Return("None", None))
    ELSE BeginRefresh(r, row)

\* get_valid_token lines 290-310 up to the request of the refresh
GetValidToken(r, row, t) ==
    IF row = NoRecord THEN TokenReturns(r, row, Return("None", None))
    ELSE IF is_token_expired(row, t) THEN BeginRefresh(r, row)
    ELSE TokenReturns(r, row, AccessToken(row, t))

StartGetValidToken(t, d) ==
    /\ Accept(t, GetValidToken([Idle EXCEPT !.op = "get_valid_token",
                                            !.device_id = d], db[d], now))
    /\ UNCHANGED <<now, config, auth_states, db, issued, owing, ticks>>

\* what a 200 answer carries besides expires_in, and the refresh token the
\* call had decrypted at line 229
Granted(resp, stored) ==
    [access_token |-> resp.access_token, refresh_token |-> resp.refresh_token,
     scope |-> resp.scope, stored |-> stored]

\* variant: the refresh token of the answer is not looked at
KeepsRefreshToken(resp, stored) == stored

\* line 259: token_data.get("refresh_token", refresh_token)
RefreshTokenOf(resp, stored) ==
    IF resp.refresh_token = Missing THEN stored ELSE resp.refresh_token

\* lines 248-277: the answer of the token endpoint; the new tokens are set
\* and committed, or the function returns False
RefreshResponse(t, resp, storage_ok) ==
    /\ req[t].pc = "refresh"
    /\ LET r == [req[t] EXCEPT !.upstream = Upstream(resp)]
           d == req[t].device_id
           stored == decrypt(req[t].device.encrypted_refresh_token)
           refresh_token == RefreshTokenOf(resp, stored)
           call == SetTokens(req[t].device, resp.access_token, refresh_token,
                             resp.expires_in, resp.scope, now)
           device == call.device
       IN IF resp.status # "200"
          THEN /\ Step(t, RefreshReturns([r EXCEPT !.refreshed = "failed"], FALSE))
               /\ UNCHANGED db
          ELSE IF resp.access_token = Missing
          THEN /\ db' = [db EXCEPT ![d] = rollback(db[d], req[t].device)]
               /\ Step(t, RefreshReturns([r EXCEPT !.refreshed = "failed",
                                                   !.txn = "rolled_back"], FALSE))
          ELSE IF call.raised # None \/ ~storage_ok
          THEN /\ db' = [db EXCEPT ![d] = rollback(db[d], device)]
               /\ Step(t, RefreshReturns([r EXCEPT !.refreshed = "failed",
                                                   !.fault = call.raised = None,
                                                   !.txn = "rolled_back"],
                                         FALSE))
          ELSE /\ db' = [db EXCEPT ![d] = commit(db[d], device)]
               /\ Step(t, RefreshReturns([r EXCEPT !.refreshed = "ok",
                                                   !.granted = Granted(resp, stored)],
                                         TRUE))
    /\ UNCHANGED <<now, config, auth_states, issued, owing, quota, ticks>>

\* lines 304-310: the row is read again after the refresh
Reread(t) ==
    /\ req[t].pc = "reread"
    /\ LET row == db[req[t].device_id]
       IN Step(t, TokenReturns(req[t], row, AccessToken(row, now)))
    /\ UNCHANGED <<now, config, auth_states, db, issued, owing, quota, ticks>>

\* ------------------------------------------------ delete_expired_devices
\* variant: a row updated exactly at the cutoff is collected too
UpToCutoff(table, days, t) ==
    {d \in Devices : table[d] # NoRecord /\ table[d].updated_at <= t - days * DAY}

\* models.py lines 205-206: the rows the query returns,
\* filter(updated_at < cutoff_date)
ExpiredDevices(table, days, t) ==
    {d \in Devices : table[d] # NoRecord /\ table[d].updated_at < t - days * DAY}

\* models.py lines 194-216, called in an application context of its own
\* (no route calls it).  The rows are queried, marked deleted and committed
\* in one transaction; nothing is committed when the query is empty.  A
\* failed commit persists nothing and its exception leaves the function:
\* there is no except clause and no rollback, the session keeps the failed
\* transaction.
DeleteExpiredDevices(t, days, storage_ok) ==
    /\ LET expired_devices == ExpiredDevices(db, days, now)
           count == Cardinality(expired_devices)
           r == [Idle EXCEPT !.op = "delete_expired_devices", !.days = days]
       IN IF count = 0
          THEN /\ Accept(t, Finish(r, [Return("count", None) EXCEPT !.count = 0]))
               /\ UNCHANGED db
          ELSE IF storage_ok
          THEN /\ db' = [d \in Devices |->
                           IF d \in expired_devices THEN NoRecord ELSE db[d]]
               /\ Accept(t, Finish(r, [Return("count", None) EXCEPT
                                         !.count = count]))
          ELSE /\ UNCHANGED db
               /\ Accept(t, Finish([r EXCEPT !.fault = TRUE, !.txn = "failed"],
                                   Raise("SQLAlchemyError", "commit", None)))
    /\ UNCHANGED <<now, config, auth_states, issued, owing, ticks>>

\* ---------------------------------------------------------- /command route
\* routes.py lines 359-401: the first get_valid_token of the request
StartCommand(t, d) ==
    /\ Accept(t, GetValidToken([Idle EXCEPT !.op = "command", !.device_id = d,
                                            !.stage = 1], db[d], now))
    /\ UNCHANGED <<now, config, auth_states, db, issued, owing, ticks>>

\* routes.py lines 403-435: the transcription arrives (text) or fails, and
\* is parsed; execute_command starts with get_spotify_client ->
\* get_valid_token, which finds the row of the device loaded in the session
Transcribed(t, ok, text) ==
    /\ req[t].pc = "transcribe"
    /\ LET command == parse_command(text)
       IN Step(t, IF ~ok THEN Finish(req[t], Return("500", None))
                  ELSE IF ~Truthy(command)
                  THEN Finish([req[t] EXCEPT !.text = text],
                              [Return("200", None) EXCEPT
                                 !.message = "No command detected in audio"])
                  ELSE GetValidToken([req[t] EXCEPT !.stage = 2, !.text = text,
                                                    !.command = command],
                                     req[t].device, now))
    /\ UNCHANGED <<now, config, auth_states, db, issued, owing, quota, ticks>>

\* routes.py lines 435-459: execute_command(command, transcribed_text,
\* device_id) with command the value parse_command returned
Execute(t, env) ==
    /\ req[t].pc = "execute"
    /\ LET result == execute_command(req[t].command, PyStr(req[t].text),
                                     req[t].token, env)
       IN Step(t, Finish([req[t] EXCEPT !.outcome = result],
             [Return(IF result.success THEN "200" ELSE "400", None)
                EXCEPT !.message = result.message, !.remote = result.remote]))
    /\ UNCHANGED <<now, config, auth_states, db, issued, owing, quota, ticks>>

\* ------------------------------------------- execute_command, called alone
\* the arguments of the call: every command of COMMAND_KEYWORDS_REGEX and
\* one that is none of them; no name, an empty one, and names with and
\* without a separator
CommandArgs == {PyStr(<<Commands[i]>>) : i \in DOMAIN Commands} \cup {PyStr(<<"shuffle">>)}

NameArgs ==
    {PyNone, PyStr(<<>>), PyStr(<<"imagine">>), PyStr(<<"abbey", "road">>),
     PyStr(<<"imagine", "by", "john", "lennon">>)}

\* what get_valid_token may return to get_spotify_client
GateTokens == {None} \cup {g.access_token : g \in Grants}

InitExecute ==
    /\ now = 0
    /\ config = [SPOTIFY_CLIENT_ID |-> "cid", SPOTIFY_CLIENT_SECRET |-> "secret"]
    /\ auth_states = [s \in StateTokens |-> NoEntry]
    /\ db = [d \in Devices |-> NoRecord]
    /\ \E command \in CommandArgs, name \in NameArgs, d \in Devices :
          req = [t \in Handlers |->
                   IF t = 1
                   THEN [Idle EXCEPT !.op = "execute_command", !.pc = "call",
                                     !.command = command, !.name = name,
                                     !.device_id = d]
                   ELSE Idle]
    /\ issued = <<>>
    /\ owing = [s \in StateTokens |-> {}]
    /\ quota = 0
    /\ ticks = 0

\* spotify_service.py lines 68-246: one call of execute_command(command,
\* name, device_id), from get_spotify_client to the return
ExecuteCommand(t, token, env) ==
    /\ req[t].pc = "call"
    /\ req[t].op = "execute_command"
    /\ req' = [req EXCEPT ![t] =
          [@ EXCEPT !.pc = "done", !.token = token, !.env = env,
                    !.outcome = execute_command(req[t].command, req[t].name,
                                                token, env)]]
    /\ UNCHANGED <<now, config, auth_states, db, issued, owing, quota, ticks>>

\* --------------------------------------------- parse_command, called alone
\* the words of the short texts
Vocabulary ==
    {"play", "Pause", "pause", "album", "track", "música", "please",
     "imagine", "imagine!", "."}

\* the texts of the scenarios of the command grammar
Scenarios ==
    {<<"please", "play", "album", "abbey", "road">>, <<"pause">>,
     <<"turn", "off", "the", "lights">>, <<"pause", "the", "music">>,
     <<"play", "artist", "imagine">>, <<"play", "playlist", "imagine">>,
     <<"add", "to", "queue", "imagine">>, <<"play", "album", "abbey", "road.">>,
     <<"can", "you", "play", "artista", "john", "lennon">>}

ParseTexts ==
    UNION {[1 .. n -> Vocabulary] : n \in 0 .. MaxWords} \cup Scenarios

InitParse ==
    /\ now = 0
    /\ config = [SPOTIFY_CLIENT_ID |-> "cid", SPOTIFY_CLIENT_SECRET |-> "secret"]
    /\ auth_states = [s \in StateTokens |-> NoEntry]
    /\ db = [d \in Devices |-> NoRecord]
    /\ \E text \in ParseTexts :
          req = [t \in Handlers |->
                   IF t = 1
                   THEN [Idle EXCEPT !.op = "parse_command", !.pc = "call",
                                     !.text = text]
                   ELSE Idle]
    /\ issued = <<>>
    /\ owing = [s \in StateTokens |-> {}]
    /\ quota = 0
    /\ ticks = 0

\* spotify_service.py lines 31-65: one call of parse_command(text)
ParseCommand(t) ==
    /\ req[t].pc = "call"
    /\ req[t].op = "parse_command"
    /\ req' = [req EXCEPT ![t] =
          [@ EXCEPT !.pc = "done", !.command = parse_command(req[t].text)]]
    /\ UNCHANGED <<now, config, auth_states, db, issued, owing, quota, ticks>>

\* ------------------------------------------ is_token_expired, read alone
\* seconds from the reading to expires_at
Margins == {-30, 0, 30, 59, 60, 61, 120}

\* the times of the reading
Nows == {100, 400}

\* the rows of the device table at the reading
ExpiringRecords(t) ==
    {[row EXCEPT !.expires_at = t + m] : row \in StoredRecords, m \in Margins}

InitExpiry ==
    /\ now \in Nows
    /\ config = [SPOTIFY_CLIENT_ID |-> "cid", SPOTIFY_CLIENT_SECRET |-> "secret"]
    /\ auth_states = [s \in StateTokens |-> NoEntry]
    /\ db \in [Devices -> ExpiringRecords(now) \cup {NoRecord}]
    /\ req = [t \in Handlers |-> Idle]
    /\ issued = <<>>
    /\ owing = [s \in StateTokens |-> {}]
    /\ quota = 0
    /\ ticks = 0

\* models.py lines 120-143: device.is_token_expired on the row of device d
IsTokenExpired(t, d) ==
    /\ req[t].pc = "idle"
    /\ \A u \in Handlers : req[u].pc = "idle" => t <= u
    /\ db[d] # NoRecord
    /\ req' = [req EXCEPT ![t] =
          Finish([Idle EXCEPT !.op = "is_token_expired", !.device_id = d],
                 [Return("bool", None) EXCEPT
                    !.expired = is_token_expired(db[d], now),
                    !.margin = db[d].expires_at - now])]
    /\ UNCHANGED <<now, config, auth_states, db, issued, owing, quota, ticks>>

\* ------------------------------------------------ set_tokens, called alone
\* the arguments of the call: token strings, the empty string, a value that
\* is not a string, the lifetimes of ExpiresIn and a scope that may be empty
TokenArgs ==
    [access_token : {"a2", Empty, NotStr}, refresh_token : {"r2", Empty, NotStr},
     expires_in : ExpiresIn, scope : Scopes \cup {Empty}]

\* the object set_tokens is called on: a row loaded from the table or the
\* new DeviceAuth(device_id=...) of auth_service.py line 152
InitSetTokens ==
    /\ now \in Nows
    /\ config = [SPOTIFY_CLIENT_ID |-> "cid", SPOTIFY_CLIENT_SECRET |-> "secret"]
    /\ auth_states = [s \in StateTokens |-> NoEntry]
    /\ db = [d \in Devices |-> NoRecord]
    /\ \E row \in StoredRecords \cup {NoRecord}, args \in TokenArgs :
          req = [t \in Handlers |->
                   IF t = 1
                   THEN [Idle EXCEPT !.op = "set_tokens", !.pc = "call",
                                     !.device = row, !.before = row,
                                     !.args = args]
                   ELSE Idle]
    /\ issued = <<>>
    /\ owing = [s \in StateTokens |-> {}]
    /\ quota = 0
    /\ ticks = 0

\* models.py lines 46-80: one call of device.set_tokens(access_token,
\* refresh_token, expires_in, scope); the object stays in the session
CallSetTokens(t) ==
    /\ req[t].pc = "call"
    /\ req[t].op = "set_tokens"
    /\ LET a == req[t].args
           call == SetTokens(req[t].device, a.access_token, a.refresh_token,
                             a.expires_in, a.scope, now)
       IN req' = [req EXCEPT ![t] =
             [@ EXCEPT !.pc = "done", !.device = call.device,
                       !.raised = call.raised]]
    /\ UNCHANGED <<now, config, auth_states, db, issued, owing, quota, ticks>>

\* ------------------------------------------ encrypt, decrypt, called alone
\* A str is the sequence of its characters, a bytes object the sequence of
\* its bytes.  The characters are one of each UTF-8 length up to three:
\* "a" (U+0061), "e_acute" (U+00E9) and "euro" (U+20AC).
Chars == {"a", "e_acute", "euro"}

utf8(c) ==
    IF c = "a" THEN <<97>>
    ELSE IF c = "e_acute" THEN <<195, 169>>
    ELSE <<226, 130, 172>>

\* data.encode("utf-8")
RECURSIVE encode(_)
encode(chars) ==
    IF chars = <<>> THEN <<>> ELSE utf8(Head(chars)) \o encode(Tail(chars))

\* variant: the bytes are read as Latin-1, one character for each byte
RECURSIVE Latin1(_)
Latin1(bytes) ==
    IF bytes = <<>> THEN <<>>
    ELSE <<IF Head(bytes) = 97 THEN "a" ELSE "other">> \o Latin1(Tail(bytes))

\* decrypted_data.decode("utf-8"): the lead byte tells the length of the
\* character
RECURSIVE decode(_)
decode(bytes) ==
    IF bytes = <<>> THEN <<>>
    ELSE LET n == IF Head(bytes) < 128 THEN 1
                  ELSE IF Head(bytes) < 224 THEN 2 ELSE 3
             c == CHOOSE c \in Chars : utf8(c) = SubSeq(bytes, 1, n)
         IN <<c>> \o decode(SubSeq(bytes, n + 1, Len(bytes)))

\* encryption.py lines 37-63: encrypt(data) on a Python value
Encrypt(data) ==
    IF data.type # "str" THEN [raised |-> "TypeError", token |-> NoBytes]
    ELSE IF data.str = <<>> THEN [raised |-> "ValueError", token |-> NoBytes]
    ELSE [raised |-> None, token |-> Fernet(FIELD_ENCRYPTION_KEY, encode(data.str))]

\* encryption.py lines 66-95: decrypt(token); InvalidToken becomes the
\* ValueError of line 91
Decrypt(token) ==
    IF token = NotBytes
    THEN [raised |-> "TypeError", message |-> "Expected bytes", value |-> PyNone]
    ELSE IF token = NoBytes
    THEN [raised |-> "ValueError", message |-> "Cannot decrypt empty bytes",
          value |-> PyNone]
    ELSE IF DecryptFails(token)
    THEN [raised |-> "ValueError",
          message |-> "Invalid token or encryption key mismatch",
          value |-> PyNone]
    ELSE [raised |-> None, message |-> None, value |-> PyStr(decode(token.data))]

RECURSIVE Strings(_)
Strings(n) ==
    IF n = 0 THEN {<<>>}
    ELSE Strings(n - 1)
            \cup {<<c>> \o str : c \in Chars, str \in Strings(n - 1)}

\* the arguments of encrypt: every short string, the empty one and a value
\* that is not a str
Plaintexts == {PyStr(str) : str \in Strings(MaxChars)} \cup {PyNone}

\* what may reach decrypt in place of the token encrypt returned: the token
\* itself, the token with its payload replaced, a token produced under
\* another key, empty bytes, a value that is not bytes
Presented(token) ==
    {[forge |-> "none", token |-> token]}
    \cup {[forge |-> "tampered", token |-> [token EXCEPT !.data = encode(str)]] :
            str \in {x \in Strings(MaxChars) : x # <<>> /\ encode(x) # token.data}}
    \cup {[forge |-> "other_key", token |-> Fernet(OtherKey, token.data)]}
    \cup {[forge |-> "empty", token |-> NoBytes]}
    \cup {[forge |-> "not_bytes", token |-> NotBytes]}

InitCrypto ==
    /\ now = 0
    /\ config = [SPOTIFY_CLIENT_ID |-> "cid", SPOTIFY_CLIENT_SECRET |-> "secret"]
    /\ auth_states = [s \in StateTokens |-> NoEntry]
    /\ db = [d \in Devices |-> NoRecord]
    /\ \E data \in Plaintexts :
          req = [t \in Handlers |->
                   IF t = 1
                   THEN [Idle EXCEPT !.op = "crypto", !.pc = "encrypt",
                                     !.plain = data]
                   ELSE Idle]
    /\ issued = <<>>
    /\ owing = [s \in StateTokens |-> {}]
    /\ quota = 0
    /\ ticks = 0

\* one call of encrypt(data)
CallEncrypt(t) ==
    /\ req[t].op = "crypto"
    /\ req[t].pc = "encrypt"
    /\ LET call == Encrypt(req[t].plain)
       IN req' = [req EXCEPT ![t] =
             [@ EXCEPT !.pc = IF call.raised = None THEN "decrypt" ELSE "done",
                       !.cipher = call.token, !.raised = call.raised]]
    /\ UNCHANGED <<now, config, auth_states, db, issued, owing, quota, ticks>>

\* one call of decrypt on what has become of the token
CallDecrypt(t, presented) ==
    /\ req[t].op = "crypto"
    /\ req[t].pc = "decrypt"
    /\ LET call == Decrypt(presented.token)
       IN req' = [req EXCEPT ![t] =
             [@ EXCEPT !.pc = "done", !.forge = presented.forge,
                       !.presented = presented.token,
                       !.raised = call.raised, !.back = call.value,
                       !.result = Raise(call.raised, call.message, None)]]
    /\ UNCHANGED <<now, config, auth_states, db, issued, owing, quota, ticks>>

\* -------------------------------- delete_expired_devices, called alone
\* seconds since the last update of a row, around a cutoff of one day
Ages == {0, DAY - 1, DAY, DAY + 1, 2 * DAY}

\* the rows of the device table at the call
AgedRecords(t) ==
    {[row EXCEPT !.updated_at = t - age] : row \in StoredRecords, age \in Ages}

\* days arguments of the call alone
RetentionDays == {0, 1, 2}

InitSweep ==
    /\ now = 2 * DAY
    /\ config = [SPOTIFY_CLIENT_ID |-> "cid", SPOTIFY_CLIENT_SECRET |-> "secret"]
    /\ auth_states = [s \in StateTokens |-> NoEntry]
    /\ db \in [Devices -> AgedRecords(now) \cup {NoRecord}]
    /\ req = [t \in Handlers |-> Idle]
    /\ issued = <<>>
    /\ owing = [s \in StateTokens |-> {}]
    /\ quota = 1
    /\ ticks = 0

\* the authorization flow: /auth/url and /auth/callback
AuthStep ==
    \/ \E t \in Handlers, d \in Devices : GenerateAuthUrl(t, d)
    \/ \E t \in Handlers, s \in StateTokens : CleanupDelete(t, s)
    \/ \E t \in Handlers, s \in StateTokens : StoreState(t, s)
    \/ \E t \in Handlers, s \in StateTokens : StartCallback(t, s)
    \/ \E t \in Handlers : ValidateLookup(t)
    \/ \E t \in Handlers : ValidateDelExpired(t)
    \/ \E t \in Handlers : ValidateDelValid(t)
    \/ \E t \in Handlers, resp \in TokenResponses :
          \E ok \in Storage(resp) : ExchangeResponse(t, resp, ok)

\* the requests that /auth/callback answers without process_callback
RouteStep ==
    \E t \in Handlers, error \in Errors \cup {None},
       error_description \in ErrorDescriptions \cup {Missing},
       code \in Codes \cup {None}, state \in StateTokens \cup {None} :
          CallbackRejected(t, error, error_description, code, state)

\* the access gate and its callers: /refresh, get_valid_token, /command
GateStep(responses) ==
    \/ \E t \in Handlers, d \in Devices : StartRefresh(t, d)
    \/ \E t \in Handlers, d \in Devices : StartGetValidToken(t, d)
    \/ \E t \in Handlers, resp \in responses :
          \E ok \in Storage(resp) : RefreshResponse(t, resp, ok)
    \/ \E t \in Handlers : Reread(t)

TokenStep == GateStep(TokenResponses)

CommandStep ==
    \/ \E t \in Handlers, d \in Devices : StartCommand(t, d)
    \/ \E t \in Handlers, ok \in BOOLEAN, text \in Texts : Transcribed(t, ok, text)
    \/ \E t \in Handlers, env \in Remotes : Execute(t, env)

Clock == \E step \in TickSteps : Tick(step)

Next == Clock \/ AuthStep \/ RouteStep \/ TokenStep \/ CommandStep

\* the whole server, started on an empty database
Spec == Init /\ [][Next]_vars

\* the authorization flow alone
NextAuth == Clock \/ AuthStep

SpecAuth == Init /\ [][NextAuth]_vars

\* the authorization flow with room for a second /auth/url request behind
\* two callbacks
SpecAuthLong == InitLong /\ [][NextAuth]_vars

\* process_callback as the route calls it
ProcessCallbackStep ==
    \/ \E t \in Handlers, s \in StateTokens : StartCallback(t, s)
    \/ \E t \in Handlers : ValidateLookup(t)
    \/ \E t \in Handlers : ValidateDelExpired(t)
    \/ \E t \in Handlers : ValidateDelValid(t)
    \/ \E t \in Handlers, resp \in TokenResponses :
          \E ok \in Storage(resp) : ExchangeResponse(t, resp, ok)

\* the /auth/callback route in full, started with one authorization pending
NextCallback == Clock \/ RouteStep \/ ProcessCallbackStep

SpecCallback == InitPending /\ [][NextCallback]_vars

\* the answers of the token endpoint in the runs of the credential store
StoreResponses == RefreshResponses \cup MalformedResponses

\* days arguments of the retention sweep: 0 collects the rows updated before
\* the call, 1 is beyond the length of a run
SweepDays == {0, 1}

\* every operation that writes the device table: process_callback,
\* refresh_token_for_device (the /refresh route) and delete_expired_devices
StoreStep ==
    \/ \E t \in Handlers, s \in StateTokens : StartCallback(t, s)
    \/ \E t \in Handlers : ValidateLookup(t)
    \/ \E t \in Handlers : ValidateDelExpired(t)
    \/ \E t \in Handlers : ValidateDelValid(t)
    \/ \E t \in Handlers, resp \in StoreResponses :
          \E ok \in Storage(resp) : ExchangeResponse(t, resp, ok)
    \/ \E t \in Handlers, d \in Devices : StartRefresh(t, d)
    \/ \E t \in Handlers, resp \in StoreResponses :
          \E ok \in Storage(resp) : RefreshResponse(t, resp, ok)
    \/ \E t \in Handlers, days \in SweepDays, ok \in BOOLEAN :
          DeleteExpiredDevices(t, days, ok)

\* the credential store, started with one authorization pending
NextStore == Clock \/ StoreStep

SpecStore == InitPending /\ [][NextStore]_vars

\* execute_command alone, on every argument
NextExecute ==
    \E t \in Handlers, token \in GateTokens, env \in Remotes :
        ExecuteCommand(t, token, env)

SpecExecute == InitExecute /\ [][NextExecute]_vars

\* parse_command alone, on every short text and on the scenarios
NextParse == \E t \in Handlers : ParseCommand(t)

SpecParse == InitParse /\ [][NextParse]_vars

\* is_token_expired alone, on rows that expire around the reading
NextExpiry == \E t \in Handlers, d \in Devices : IsTokenExpired(t, d)

SpecExpiry == InitExpiry /\ [][NextExpiry]_vars

\* encrypt and decrypt alone, on every short string
NextCrypto ==
    \/ \E t \in Handlers : CallEncrypt(t)
    \/ \E t \in Handlers :
          \E presented \in Presented(req[t].cipher) : CallDecrypt(t, presented)

SpecCrypto == InitCrypto /\ [][NextCrypto]_vars

\* the access gate with every answer of the token endpoint, in shorter runs
NextGate == Clock \/ TokenStep

SpecGate == InitGate /\ [][NextGate]_vars

\* delete_expired_devices alone, on rows updated around the cutoff
NextSweep ==
    \E t \in Handlers, days \in RetentionDays, ok \in BOOLEAN :
        DeleteExpiredDevices(t, days, ok)

SpecSweep == InitSweep /\ [][NextSweep]_vars

\* set_tokens alone, on a stored row or a new object
NextSetTokens == \E t \in Handlers : CallSetTokens(t)

SpecSetTokens == InitSetTokens /\ [][NextSetTokens]_vars

\* the access gate alone, started with one device that may have authorized
\* ------------------------------------------- several worker processes
\* Under `gunicorn -w 4 run:app` (run.py line 35, WORKERS of config.py line
\* 69) every worker process imports auth_service and holds a dict
\* _auth_states of its own (line 20); the database is shared.  A worker of
\* the default class serves one request at a time, so a handler is one
\* step up to its request to the token endpoint, and any worker may be
\* handed any request.  Here a handler is a worker process and auth_states
\* maps each worker to its dict.
InitWorkers ==
    /\ now = 0
    /\ config = [SPOTIFY_CLIENT_ID |-> "cid", SPOTIFY_CLIENT_SECRET |-> "secret"]
    /\ auth_states = [w \in Handlers |-> [s \in StateTokens |-> NoEntry]]
    /\ db = [d \in Devices |-> NoRecord]
    /\ req = [t \in Handlers |-> Idle]
    /\ issued = <<>>
    /\ owing = [s \in StateTokens |-> {}]
    /\ quota = MaxRequests
    /\ ticks = 0

\* a worker is handed a request
Handed(w, r) ==
    /\ Free(w)
    /\ quota > 0
    /\ quota' = quota - 1
    /\ Step(w, r)

\* lines 23-36: the dict without its entries over age
Swept(cache, t) ==
    [s \in StateTokens |->
        IF s \in ExpiredStates(cache, t) THEN NoEntry ELSE cache[s]]

\* generate_spotify_auth_url in worker w: lines 103-121 with _generate_state
WorkerGenerate(w, d, s) ==
    /\ auth_states' = [auth_states EXCEPT ![w] =
          [Swept(auth_states[w], now) EXCEPT ![s] =
              [device_id |-> d, created_at |-> now, id |-> Len(issued) + 1]]]
    /\ issued' = Append(issued, [state |-> s, asked |-> FALSE, obtained |-> 0])
    /\ owing' = [owing EXCEPT ![s] = @ \cup {[device_id |-> d, at |-> now]}]
    /\ Handed(w, Finish([Idle EXCEPT !.op = "auth_url", !.device_id = d],
                        Return("url", s)))
    /\ UNCHANGED <<now, config, db, ticks>>

\* process_callback in worker w up to the request of the exchange: lines
\* 138-140 with _validate_state lines 69-87 on the dict of w, then lines
\* 186-202
WorkerCallback(w, s) ==
    /\ LET state_data == auth_states[w][s]
           r == [Idle EXCEPT !.op = "callback", !.state = s,
                             !.owed = {e.device_id : e \in owing[s]},
                             !.bad_state = state_data = NoEntry
                                 \/ IsExpiredState(state_data, now)]
       IN IF state_data = NoEntry
          THEN /\ Handed(w, Finish(r, Raise("ValueError",
                                  "Invalid or expired state parameter", None)))
               /\ UNCHANGED <<auth_states, issued>>
          ELSE IF IsExpiredState(state_data, now)
          THEN /\ auth_states' = [auth_states EXCEPT ![w][s] = NoEntry]
               /\ Handed(w, Finish([r EXCEPT !.age_check = "expired"],
                             Raise("ValueError",
                                   "Invalid or expired state parameter", None)))
               /\ UNCHANGED issued
          ELSE /\ auth_states' = [auth_states EXCEPT ![w][s] = NoEntry]
               /\ issued' = [issued EXCEPT ![state_data.id].obtained = @ + 1]
               /\ Handed(w, [r EXCEPT !.age_check = "valid",
                                      !.state_data = state_data,
                                      !.device_id = state_data.device_id,
                                      !.got = state_data.id,
                                      !.pc = "exchange", !.calls = @ + 1])
    /\ owing' = [owing EXCEPT ![s] = {}]
    /\ UNCHANGED <<now, config, db, ticks>>

NextWorkers ==
    \/ Clock
    \/ \E w \in Handlers, d \in Devices, s \in StateTokens :
          WorkerGenerate(w, d, s)
    \/ \E w \in Handlers, s \in StateTokens : WorkerCallback(w, s)
    \/ \E w \in Handlers, resp \in TokenResponses :
          \E ok \in Storage(resp) : ExchangeResponse(w, resp, ok)

SpecWorkers == InitWorkers /\ [][NextWorkers]_vars

\* authorization and access gate together, without the /command route
NextRecords == Clock \/ AuthStep \/ GateStep(RefreshResponses)

SpecRecords == InitRecords /\ [][NextRecords]_vars

NextToken == Clock \/ GateStep(RefreshResponses)

SpecToken == InitToken /\ [][NextToken]_vars

\* ------------------------------------------------------------ properties
InvalidState == Raise("ValueError", "Invalid or expired state parameter", None)

\* _validate_state of the callback handler t has ended
Validated(t) == req[t].op = "callback" /\ req[t].pc \in {"exchange", "done"}

\* ... by returning None: process_callback line 140 raised
ReturnedNone(t) == req[t].pc = "done" /\ req[t].result = InvalidState

\* C1: for every issued state token the first _validate_state made within
\* the TTL returns the device the token was issued for, and every later
\* _validate_state on that token returns None, in any sequence of issue and
\* consume operations (calls of _validate_state that do not overlap).
C1_StateSingleUse ==
    \A t \in Handlers : (Validated(t) /\ ~req[t].raced) =>
        /\ (req[t].owed # {} /\ req[t].age_check # "expired")
              => (req[t].got # 0 /\ req[t].owed = {req[t].device_id})
        /\ req[t].later => ReturnedNone(t)

\* C2: of the handlers that run process_callback on one issued state token,
\* under every interleaving at most one obtains the device id and goes on to
\* the token exchange.
C2_AtMostOneObtains ==
    \A i \in DOMAIN issued : issued[i].obtained <= 1

\* C3: a token whose age at the lookup exceeds AUTH_STATE_TTL makes
\* _validate_state return None and its entry is gone afterwards; a token
\* whose age is at most the TTL is accepted (by the one call that asks).
C3_TtlAtLookup ==
    \A t \in Handlers : Validated(t) =>
        /\ req[t].age_check = "expired"
              => (ReturnedNone(t) /\ auth_states[req[t].state] = NoEntry)
        /\ (req[t].age_check = "valid" /\ ~req[t].raced) => req[t].got # 0

\* C4: process_callback on a state that is unknown, expired or consumed when
\* the call starts ends with 'Invalid or expired state parameter' and has
\* sent nothing to the token endpoint (so it has written no record).
C4_InvalidStateRejected ==
    \A t \in Handlers :
        (Validated(t) /\ req[t].bad_state)
            => (ReturnedNone(t) /\ req[t].calls = 0)

\* C5: a callback on a state issued for D, made within the TTL, whose code
\* the token endpoint answers with a complete token body, and whose commit
\* goes through, returns success and leaves a record for D that is not
\* expired.
C5_AuthorizeRoundTrip ==
    \A t \in Handlers :
        (/\ req[t].op = "callback" /\ req[t].pc = "done"
         /\ req[t].owed # {} /\ req[t].age_check = "valid" /\ req[t].got # 0
         /\ req[t].upstream.status = 200 /\ req[t].upstream.complete
         /\ req[t].upstream.expires_in > 0 /\ ~req[t].fault)
            => /\ req[t].result.status = "ok"
               /\ \A d \in req[t].owed :
                     db[d] # NoRecord /\ ~is_token_expired(db[d], now)

\* C6: a token returned by get_valid_token expires more than 60 seconds
\* after the moment of the return, refreshed or not.
C6_TokenOutsideBuffer ==
    \A t \in Handlers :
        (req[t].op = "get_valid_token" /\ req[t].pc = "done"
         /\ req[t].result.status = "token")
            => req[t].result.margin > EXPIRY_BUFFER

\* C7: one call of get_valid_token sends at most one request to the token
\* endpoint.
C7_SingleRefreshRequest ==
    \A t \in Handlers : req[t].op = "get_valid_token" => req[t].calls <= 1

\* the refresh request failed and get_valid_token returned None after it
C7_Witness ==
    \E t \in Handlers :
        /\ req[t].op = "get_valid_token" /\ req[t].pc = "done"
        /\ req[t].calls = 1 /\ req[t].refreshed = "failed"
        /\ req[t].upstream.status \in {0, 400}
        /\ req[t].result.status = "None"

\* C8: when the refresh fails (non-200, no answer, malformed body, rejected
\* values or failed commit) the step leaves every committed record as it
\* was, refresh_token_for_device returns False and get_valid_token None.
C8_FailedRefreshKeepsRecord ==
    [][\A t \in Handlers :
          (req[t].pc = "refresh" /\ req'[t].refreshed = "failed")
              => /\ db' = db
                 /\ req[t].op = "refresh"
                       => (req'[t].pc = "done"
                           /\ req'[t].result = Return("False", None))
                 /\ req[t].op = "get_valid_token"
                       => (req'[t].pc = "done"
                           /\ req'[t].result = Return("None", None))
                 /\ req[t].op = "command"
                       => \/ req'[t].pc = "done"
                             /\ req'[t].result = Return("401", None)
                          \/ req'[t].pc = "execute" /\ req'[t].token = None]_vars

\* the commit of a refresh failed after set_tokens had changed the session's
\* row, and the committed record is still there
C8_Witness ==
    \E t \in Handlers :
        /\ req[t].op = "get_valid_token" /\ req[t].pc = "done"
        /\ req[t].refreshed = "failed" /\ req[t].fault
        /\ db[req[t].device_id] # NoRecord
        /\ req[t].result.status = "None"

\* C9: a transcription that parse_command recognises, for a device whose
\* token the gate returned, is executed: the remote call is made and the
\* answer is never 'Unknown command'.
C9_RecognisedCommandExecuted ==
    \A t \in Handlers :
        (req[t].op = "command" /\ req[t].pc = "done" /\ Truthy(req[t].command)
         /\ req[t].result.status \in {"200", "400"})
            => /\ req[t].result.message # "Unknown command"
               /\ req[t].result.status = "200" => req[t].result.remote # <<>>

\* C10: when the token endpoint answers the exchange with a non-success
\* status, process_callback raises with the error_description of the answer,
\* no record changes, and the consumed entry is not back in the cache.
C10_FailedExchange ==
    [][\A t \in Handlers :
          (req[t].pc = "exchange" /\ req'[t].pc = "done"
           /\ req'[t].upstream.status = 400)
              => /\ req'[t].result.status = "ValueError"
                 /\ req'[t].result.message = "Failed to exchange code"
                 /\ req'[t].upstream.desc # Missing
                       => req'[t].result.detail = req'[t].upstream.desc
                 /\ db' = db
                 /\ auth_states' = auth_states
                 /\ \A s \in StateTokens : auth_states'[s].id # req[t].got]_vars

\* the exchange was answered 400 with a description, which the error carries
C10_Witness ==
    \E t \in Handlers :
        /\ req[t].op = "callback" /\ req[t].pc = "done"
        /\ req[t].upstream.status = 400
        /\ req[t].upstream.desc \in Descriptions
        /\ req[t].result.detail = req[t].upstream.desc
        /\ auth_states[req[t].state] = NoEntry

\* C11: a callback request that carries an error parameter is answered
\* with a 400 page that names that error; the step that answers it starts
\* no _validate_state, sends nothing to the token endpoint and leaves the
\* state cache and the device table as they were, whether or not code and
\* state came with it.
C11_RemoteErrorSurfaced ==
    [][\A t \in Handlers :
         (quota' < quota /\ req'[t].error # None) =>
            /\ req'[t].pc = "done"
            /\ req'[t].result.status = "400"
            /\ req'[t].result.message = req'[t].error
            /\ req'[t].calls = 0
            /\ req'[t].got = 0
            /\ req'[t].age_check = "na"
            /\ db' = db
            /\ auth_states' = auth_states
            /\ issued' = issued]_vars

\* an error redirect that also carried code and state has been answered
\* while a device row was in place
C11_Witness ==
    \E t \in Handlers, d \in Devices :
        /\ req[t].error # None
        /\ req[t].params
        /\ req[t].pc = "done"
        /\ db[d] # NoRecord

\* a direct call of execute_command has ended
Executed(t) == req[t].op = "execute_command" /\ req[t].pc = "done"

\* ... and the last remote call it made raised
Failed(r) == r.env.fails > 0 /\ r.env.fails = Len(r.outcome.remote)

\* C12: execute_command returns whatever happens: when the gate gives no
\* token or a remote call raises, the result is a dict with success false,
\* the command as it was passed and the text of the exception; no call
\* ends with the exception passed on.
C12_NeverRaises ==
    \A t \in Handlers :
        Executed(t) =>
            /\ ~req[t].outcome.raised
            /\ (req[t].token = None \/ Failed(req[t]))
                  => /\ ~req[t].outcome.success
                     /\ req[t].outcome.command = req[t].command
                     /\ req[t].outcome.detail \in
                           RemoteErrors \cup {NotAuthenticated}
                     /\ req[t].token # None
                           => req[t].outcome.detail = req[t].env.error

\* the second remote call of a named command raised with the gate's token
\* in hand
C12_Witness ==
    \E t \in Handlers :
        /\ Executed(t)
        /\ req[t].command = PyStr(<<"play_album">>)
        /\ req[t].token # None
        /\ req[t].name = PyStr(<<"abbey", "road">>)
        /\ Failed(req[t])
        /\ req[t].env.fails = 2
        /\ req[t].outcome.message = "Error executing"

\* C13: when get_valid_token gives no token, execute_command makes no
\* remote call and returns a failure whose error text is the one of
\* get_spotify_client; no call made with a token returns that text, so the
\* caller can tell the two apart.
C13_NotAuthenticated ==
    \A t \in Handlers :
        Executed(t) =>
            /\ req[t].token = None
                  => /\ req[t].outcome.remote = <<>>
                     /\ ~req[t].outcome.success
                     /\ req[t].outcome.message = "Error executing"
                     /\ req[t].outcome.detail = NotAuthenticated
            /\ req[t].token # None => req[t].outcome.detail # NotAuthenticated

\* a track was asked for by name, the remote service would have found it,
\* and the gate gave no token
C13_Witness ==
    \E t \in Handlers :
        /\ Executed(t)
        /\ req[t].command = PyStr(<<"play_track">>)
        /\ req[t].name = PyStr(<<"imagine">>)
        /\ req[t].token = None
        /\ req[t].env.qualified # NoItem
        /\ req[t].env.fails = 0
        /\ ~req[t].outcome.success

\* a direct call with a token, a command that takes a name, and a name
NamedCall(t) ==
    /\ Executed(t)
    /\ req[t].token # None
    /\ req[t].command.type = "str"
    /\ Len(req[t].command.str) = 1
    /\ HasGroup(req[t].command.str[1])
    /\ Truthy(req[t].name)

\* C14: for a command that takes a name, the first remote call is the
\* search with the field-qualified query; a second search is made exactly
\* when the first one answered with no item, and it asks for the raw name;
\* when only the second search finds an item, the player call carries the
\* URI of that item and the result is a success with the name of that item.
C14_QualifiedThenFallback ==
    \A t \in Handlers :
        NamedCall(t) =>
            LET remote == req[t].outcome.remote
                env == req[t].env
                words == req[t].name.str
                searches == {i \in DOMAIN remote : remote[i].call = "search"}
            IN /\ 1 \in searches
               /\ remote[1].q.field = remote[1].type
               /\ remote[1].q.field \in {"track", "artist", "album", "playlist"}
               /\ searches \subseteq {1, 2}
               /\ 2 \in searches <=> (env.fails # 1 /\ env.qualified = NoItem)
               /\ 2 \in searches
                     => /\ remote[2].q.field = None
                        /\ remote[2].q.name = words
                        /\ remote[2].type = remote[1].type
               /\ (env.qualified = NoItem /\ env.fallback # NoItem /\ env.fails = 0)
                     => /\ Len(remote) = 3
                        /\ remote[3].call \in {"start_playback", "add_to_queue"}
                        /\ remote[3].uri = env.fallback.uri
                        /\ req[t].outcome.success
                        /\ req[t].outcome.detail = env.fallback.name

\* play_track "imagine by john lennon": the query on track and artist
\* finds nothing, the search on the raw name does, and the track is played
C14_Witness ==
    \E t \in Handlers :
        /\ NamedCall(t)
        /\ req[t].command = PyStr(<<"play_track">>)
        /\ req[t].name = PyStr(<<"imagine", "by", "john", "lennon">>)
        /\ req[t].env.qualified = NoItem
        /\ req[t].env.fallback # NoItem
        /\ req[t].outcome.remote[1].q.artist = <<"john", "lennon">>
        /\ req[t].outcome.success
        /\ req[t].outcome.message = "Playing track"

\* C15: for a command that takes a name, when the qualified search and the
\* search on the raw name both answer with no item, no player call is made
\* and the result is a failure whose message says which track, artist,
\* album or playlist was not found, by the name that was passed.
C15_NotFoundNamesEntity ==
    \A t \in Handlers :
        (NamedCall(t) /\ req[t].env.qualified = NoItem
         /\ req[t].env.fallback = NoItem /\ req[t].env.fails \notin {1, 2})
            => LET remote == req[t].outcome.remote
               IN /\ \A i \in DOMAIN remote : remote[i].call = "search"
                  /\ Len(remote) = 2
                  /\ ~req[t].outcome.success
                  /\ req[t].outcome.message =
                        (CASE remote[1].type = "track" -> "Track not found"
                           [] remote[1].type = "artist" -> "Artist not found"
                           [] remote[1].type = "album" -> "Album not found"
                           [] remote[1].type = "playlist" -> "Playlist not found")
                  /\ req[t].outcome.name = req[t].name

\* play_album "abbey road" with nothing found by either search
C15_Witness ==
    \E t \in Handlers :
        /\ NamedCall(t)
        /\ req[t].command = PyStr(<<"play_album">>)
        /\ req[t].name = PyStr(<<"abbey", "road">>)
        /\ req[t].env.qualified = NoItem
        /\ req[t].env.fallback = NoItem
        /\ req[t].env.fails = 0
        /\ req[t].outcome.message = "Album not found"

\* a direct call of parse_command has ended
Parsed(t) == req[t].op = "parse_command" /\ req[t].pc = "done"

\* C16: "please play album abbey road" gives (play_album, "abbey road"),
\* "pause" gives (pause, None), "turn off the lights" gives None, and every
\* text whose normalised form no pattern matches gives None.
C16_ScenariosAndNoMatch ==
    \A t \in Handlers :
        Parsed(t) =>
            /\ req[t].text = <<"please", "play", "album", "abbey", "road">>
                  => req[t].command = PyTuple("play_album", TRUE, <<"abbey", "road">>)
            /\ req[t].text = <<"pause">>
                  => req[t].command = PyTuple("pause", FALSE, <<>>)
            /\ req[t].text = <<"turn", "off", "the", "lights">>
                  => req[t].command = PyNone
            /\ (\A i \in DOMAIN Commands :
                    ~Matches(Commands[i], Normalized(req[t].text)))
                  => req[t].command = PyNone

\* the album scenario has been parsed
C16_Witness ==
    \E t \in Handlers :
        /\ Parsed(t)
        /\ req[t].text = <<"please", "play", "album", "abbey", "road">>
        /\ req[t].command.command = "play_album"

\* the kind that the grammar gives to "play <category> <name>"
KindOf(category) ==
    CASE category = "album" -> "play_album"
      [] category = "artist" -> "play_artist"
      [] category = "track" -> "play_track"
      [] category = "playlist" -> "play_playlist"

\* C17: "play album <name>", "play artist <name>", "play track <name>" and
\* "play playlist <name>" are parsed to play_album, play_artist, play_track
\* and play_playlist with <name> as the argument, and "add to queue <name>"
\* to (add_to_queue, <name>).
C17_CategoriesParsed ==
    \A t \in Handlers :
        Parsed(t) =>
            LET text == req[t].text
            IN /\ (Len(text) = 3 /\ text[1] = "play" /\ text[3] = "imagine"
                   /\ text[2] \in {"album", "artist", "track", "playlist"})
                     => req[t].command = PyTuple(KindOf(text[2]), TRUE, <<"imagine">>)
               /\ text = <<"add", "to", "queue", "imagine">>
                     => req[t].command = PyTuple("add_to_queue", TRUE, <<"imagine">>)

\* C18: play, pause, next or previous is returned only for a text whose
\* normalised form is, as a whole, one of the synonyms of that command;
\* "pause the music" and "play imagine" give no command.
C18_BareOnlyOnEquality ==
    \A t \in Handlers :
        Parsed(t) =>
            /\ req[t].command.command \in {"play", "pause", "next", "previous"}
                  => Normalized(req[t].text) \in Prefixes(req[t].command.command)
            /\ req[t].text \in {<<"pause", "the", "music">>, <<"play", "imagine">>}
                  => req[t].command = PyNone

\* "pause the music" has been parsed
C18_Witness ==
    \E t \in Handlers :
        /\ Parsed(t)
        /\ req[t].text = <<"pause", "the", "music">>
        /\ Normalized(req[t].text)[1] = "pause"
        /\ req[t].command = PyNone

\* C19: in every (command, name) that parse_command returns, the name is
\* None exactly when the command is play, pause, next or previous, and is a
\* non-empty text that ends in no punctuation mark exactly when the command
\* is play_track, play_artist, play_album, play_playlist or add_to_queue.
C19_ArgumentMatchesKind ==
    \A t \in Handlers :
        (Parsed(t) /\ req[t].command.type = "tuple") =>
            LET kind == req[t].command.command
                name == req[t].command.name
            IN /\ ~req[t].command.has_name
                     <=> kind \in {"play", "pause", "next", "previous"}
               /\ (/\ req[t].command.has_name
                   /\ name # <<>>
                   /\ name[Len(name)] \notin Punctuation
                   /\ Unmarked(name[Len(name)]) = name[Len(name)])
                     <=> HasGroup(kind)

\* C20: is_token_expired is true exactly when the reading is at or after
\* expires_at minus 60 seconds: a row that expires in 30 seconds or in
\* exactly 60 seconds reads as expired, one that expires in 120 seconds
\* does not.
C20_ExpiredWithinBuffer ==
    \A t \in Handlers :
        (req[t].op = "is_token_expired" /\ req[t].pc = "done") =>
            LET expires_at == db[req[t].device_id].expires_at
            IN /\ req[t].result.expired <=> now >= expires_at - 60
               /\ expires_at = now + 30 => req[t].result.expired
               /\ expires_at = now + 60 => req[t].result.expired
               /\ expires_at = now + 120 => ~req[t].result.expired

\* a row that expires in exactly 60 seconds has been read
C20_Witness ==
    \E t \in Handlers :
        /\ req[t].op = "is_token_expired"
        /\ req[t].pc = "done"
        /\ req[t].result.margin = 60
        /\ req[t].result.expired

\* C21: set_tokens called with an empty access token, an empty refresh token,
\* a zero expires_in or an empty scope raises ValueError and leaves every
\* field of the object (the two encrypted tokens, expires_at, scope,
\* updated_at) as it was before the call.
C21_RejectedArgumentsChangeNothing ==
    \A t \in Handlers :
        (/\ req[t].op = "set_tokens"
         /\ req[t].pc = "done"
         /\ \/ req[t].args.access_token = Empty
            \/ req[t].args.refresh_token = Empty
            \/ req[t].args.expires_in = 0
            \/ req[t].args.scope = Empty)
        => /\ req[t].raised = "ValueError"
           /\ req[t].device = req[t].before

\* a call on a stored row with an empty refresh token and the other arguments
\* valid has been rejected
C21_Witness ==
    \E t \in Handlers :
        /\ req[t].op = "set_tokens"
        /\ req[t].pc = "done"
        /\ req[t].before # NoRecord
        /\ req[t].args.access_token = "a2"
        /\ req[t].args.refresh_token = Empty
        /\ req[t].args.expires_in = 60
        /\ req[t].args.scope \in Scopes
        /\ req[t].raised = "ValueError"

\* C22: every row of the device table has its encrypted access token, its
\* encrypted refresh token, expires_at and scope all set; no callback, refresh
\* or failure leaves a committed row with some of them set and others missing.
C22_RowsComplete ==
    \A d \in Devices :
        db[d] # NoRecord
            => /\ db[d].encrypted_access_token # NoCipher
               /\ db[d].encrypted_refresh_token # NoCipher
               /\ db[d].expires_at # -1
               /\ db[d].scope # None

\* a refresh was answered with a refresh_token that is not a string: set_tokens
\* raised after its first assignment, the session was rolled back and the
\* committed row of the device is whole
C22_Witness ==
    \E t \in Handlers :
        /\ req[t].op = "refresh" /\ req[t].pc = "done"
        /\ req[t].refreshed = "failed" /\ req[t].upstream.status = 200
        /\ req[t].txn = "rolled_back" /\ ~req[t].fault
        /\ db[req[t].device_id] # NoRecord
        /\ db[req[t].device_id].encrypted_refresh_token # NoCipher

\* the step in which the commit of handler t fails
CommitFails(t) == req'[t].fault /\ req'[t].pc = "done" /\ req'[t] # req[t]

\* C23: when the commit of process_callback, of refresh_token_for_device or
\* of delete_expired_devices fails, the operation rolls the transaction back,
\* the failure reaches its caller (an exception, or False from the refresh)
\* and the committed rows are as they were before the operation.
C23_FailedCommitRolledBack ==
    [][\A t \in Handlers :
          CommitFails(t)
              => /\ req'[t].txn = "rolled_back"
                 /\ req'[t].result.status \in {"ValueError", "SQLAlchemyError", "False"}
                 /\ db' = db]_vars

\* the states that have an entry in the cache
Live(cache) == {s \in StateTokens : cache[s] # NoEntry}

\* C24: generate_spotify_auth_url without a client id raises the ValueError of
\* the configuration at once and changes nothing in _auth_states; with a
\* client id it returns a URL, and its step that stores the state adds
\* exactly one entry, from the state of the URL to the device of the call,
\* leaving every other entry alone; it makes no request to the network.
C24_AuthUrlAddsOneEntry ==
    [][\A t \in Handlers :
          /\ (req'[t].op = "auth_url" /\ quota' < quota
              /\ config.SPOTIFY_CLIENT_ID = None)
                => /\ req'[t].pc = "done"
                   /\ req'[t].result
                        = Raise("ValueError", "SPOTIFY_CLIENT_ID not configured", None)
                   /\ auth_states' = auth_states
                   /\ issued' = issued
          /\ (req[t].op = "auth_url" /\ req[t].pc = "cleanup"
              /\ req'[t].pc = "done")
                => /\ req'[t].result.status = "url"
                   /\ req'[t].calls = 0
                   /\ \E s \in StateTokens \ Live(auth_states) :
                        /\ req'[t].result.value = s
                        /\ Live(auth_states') = Live(auth_states) \cup {s}
                        /\ auth_states'[s].device_id = req[t].device_id
                        /\ \A o \in StateTokens \ {s} :
                              auth_states'[o] = auth_states[o]]_vars

\* C25: for every non-empty string S, decrypt(encrypt(S)) returns S under
\* the configured key, and decrypt of a token whose payload was replaced or
\* that was produced under another key raises the ValueError of an invalid
\* token and returns no string.
C25_RoundTripAndIntegrity ==
    \A t \in Handlers :
        (req[t].op = "crypto" /\ req[t].pc = "done"
         /\ req[t].plain.type = "str" /\ req[t].plain.str # <<>>)
            => /\ req[t].forge = "none"
                    => req[t].raised = None /\ req[t].back = req[t].plain
               /\ req[t].forge \in {"tampered", "other_key"}
                    => /\ req[t].raised = "ValueError"
                       /\ req[t].result.message
                            = "Invalid token or encryption key mismatch"
                       /\ req[t].back = PyNone

\* a string of a two-byte and a three-byte character has made the round
\* trip
C25_Witness ==
    \E t \in Handlers :
        /\ req[t].op = "crypto" /\ req[t].pc = "done"
        /\ req[t].plain = PyStr(<<"e_acute", "euro">>)
        /\ req[t].forge = "none"
        /\ req[t].back = req[t].plain

\* C26: in a configuration without DEBUG (the route reads no such flag, so
\* in every configuration) the page the callback handler answers a failed
\* token exchange with does not depend on the error_description of the token
\* endpoint: it is the page the handler gives when the endpoint sends no
\* description.
C26_PageIndependentOfUpstreamText ==
    \A t \in Handlers :
        (req[t].op = "callback" /\ req[t].pc = "done"
         /\ req[t].upstream.status = 400)
            => req[t].page
                 = AuthCallbackPage(Raise("ValueError", "Failed to exchange code",
                                          ExchangeErrorDetail(ErrorBody("400", Missing))))

\* C27: a call of delete_expired_devices(days) that returns has deleted
\* exactly the rows whose updated_at was strictly before now minus days,
\* returns the number of rows it deleted and leaves every row updated at or
\* after the cutoff as it was; a call that raises has deleted nothing.
C27_SweepDeletesOlderThanCutoff ==
    [][\A t \in Handlers :
          (req'[t].op = "delete_expired_devices" /\ quota' < quota)
              => IF req'[t].result.status = "count"
                 THEN /\ \A d \in Devices :
                           IF db[d] # NoRecord
                              /\ db[d].updated_at < now - req'[t].days * DAY
                           THEN db'[d] = NoRecord
                           ELSE db'[d] = db[d]
                      /\ req'[t].result.count
                           = Cardinality({d \in Devices :
                                 db[d] # NoRecord /\ db'[d] = NoRecord})
                 ELSE db' = db]_vars

\* a sweep with days = 1 has deleted one row and kept the row that was
\* updated exactly one day before the call
C27_Witness ==
    \E t \in Handlers :
        /\ req[t].op = "delete_expired_devices" /\ req[t].pc = "done"
        /\ req[t].days = 1
        /\ req[t].result.status = "count" /\ req[t].result.count = 1
        /\ \E d \in Devices : db[d] # NoRecord /\ db[d].updated_at = now - DAY

\* C28 as stated: a get_valid_token that found the stored token expired and
\* whose refresh succeeded returns the access token of the answer to its own
\* refresh. Another refresh of the same device that commits between the
\* commit of this one and the second read makes it return that other token.
C28_ReturnsAnswerToken ==
    \A t \in Handlers :
        (req[t].op = "get_valid_token" /\ req[t].pc = "done"
         /\ req[t].refreshed = "ok")
            => /\ req[t].result.status = "token"
               /\ req[t].result.value = req[t].granted.access_token

\* C28, amended: the refresh of such a get_valid_token commits a row that
\* holds the access token of the refresh answer, and get_valid_token returns
\* the access token of the committed row as it reads it again after the
\* refresh (the one of its answer, or of a row another request committed in
\* between), never the one its session had read before the refresh.
C28_ReturnsRefreshedToken ==
    [][\A t \in Handlers :
          /\ (req[t].op = "get_valid_token" /\ req[t].pc = "refresh"
              /\ req'[t].refreshed = "ok")
                => /\ req'[t].pc = "reread"
                   /\ db'[req[t].device_id].encrypted_access_token
                        = Fernet(FIELD_ENCRYPTION_KEY, req'[t].granted.access_token)
          /\ (req[t].op = "get_valid_token" /\ req[t].pc = "reread"
              /\ req'[t].pc # "reread")
                => /\ req'[t].pc = "done"
                   /\ req'[t].result.status = "token"
                   /\ req'[t].result.value
                        = db[req[t].device_id].encrypted_access_token.data
                   /\ db[req[t].device_id] = db'[req[t].device_id]]_vars

\* get_valid_token has returned the access token a2 of the answer to its
\* refresh; the row held a1 before
C28_Witness ==
    \E t \in Handlers :
        /\ req[t].op = "get_valid_token" /\ req[t].pc = "done"
        /\ req[t].refreshed = "ok"
        /\ req[t].granted.access_token = "a2"
        /\ req[t].result.status = "token" /\ req[t].result.value = "a2"

\* C29: a refresh_token_for_device that succeeds leaves in the row the
\* refresh token of the answer if the answer carries one and otherwise the
\* refresh token it read from the row when it began; the access token,
\* expires_at and the scope of the row are those of the answer.
C29_RefreshTokenKeptOrReplaced ==
    [][\A t \in Handlers :
          (req[t].pc = "refresh" /\ req'[t].refreshed = "ok")
              => LET row == db'[req[t].device_id]
                     answer == req'[t].granted
                 IN /\ row.encrypted_refresh_token
                         = IF answer.refresh_token = Missing
                           THEN req[t].device.encrypted_refresh_token
                           ELSE Fernet(FIELD_ENCRYPTION_KEY, answer.refresh_token)
                    /\ row.encrypted_access_token
                         = Fernet(FIELD_ENCRYPTION_KEY, answer.access_token)
                    /\ row.expires_at = now + req'[t].upstream.expires_in
                    /\ row.scope = answer.scope]_vars

\* a refresh whose answer carried no refresh token has stored the access
\* token a2 and kept the refresh token r1
C29_Witness ==
    \E t \in Handlers :
        /\ req[t].op = "refresh" /\ req[t].pc = "done"
        /\ req[t].refreshed = "ok"
        /\ req[t].granted.refresh_token = Missing
        /\ req[t].granted.access_token = "a2"
        /\ db[req[t].device_id].encrypted_refresh_token
             = Fernet(FIELD_ENCRYPTION_KEY, "r1")
        /\ db[req[t].device_id].encrypted_access_token
             = Fernet(FIELD_ENCRYPTION_KEY, "a2")

\* C30: when the refresh token of the row cannot be decrypted,
\* refresh_token_for_device returns False (get_valid_token, which calls it
\* for an expired token, returns None), no request is made to the token
\* endpoint and the row is not modified.
C30_UndecryptableRefreshToken ==
    [][\A t \in Handlers :
          LET d == req'[t].device_id
          IN (/\ quota' < quota
              /\ \/ req'[t].op = "refresh"
                 \/ req'[t].op = "get_valid_token" /\ is_token_expired(db[d], now)
              /\ db[d] # NoRecord
              /\ db[d].encrypted_refresh_token.key # FIELD_ENCRYPTION_KEY)
                => /\ req'[t].pc = "done"
                   /\ req'[t].result
                        = Return(IF req'[t].op = "refresh" THEN "False" ELSE "None",
                                 None)
                   /\ req'[t].calls = 0
                   /\ db' = db]_vars

\* the /refresh route has answered False for a device whose refresh token
\* was encrypted under another key, and the row is still there
C30_Witness ==
    \E t \in Handlers :
        /\ req[t].op = "refresh" /\ req[t].pc = "done"
        /\ req[t].result = Return("False", None)
        /\ req[t].calls = 0
        /\ db[req[t].device_id] # NoRecord
        /\ db[req[t].device_id].encrypted_refresh_token.key = OtherKey

\* the access token, the refresh token, expires_at and the scope of the row
\* are those the refresh of handler t set from its answer
SetBy(row, r) ==
    /\ r.refreshed = "ok"
    /\ row.encrypted_access_token
         = Fernet(FIELD_ENCRYPTION_KEY, r.granted.access_token)
    /\ row.encrypted_refresh_token
         = Fernet(FIELD_ENCRYPTION_KEY,
                  IF r.granted.refresh_token = Missing
                  THEN r.granted.stored ELSE r.granted.refresh_token)
    /\ row.expires_at = row.updated_at + r.upstream.expires_in
    /\ row.scope = r.granted.scope

\* both handlers serve get_valid_token for one device and the refresh of
\* each has committed
BothRefreshed(r1, r2) ==
    /\ r1.op = "get_valid_token" /\ r2.op = "get_valid_token"
    /\ r1.device_id = r2.device_id
    /\ r1.pc \in {"reread", "done"} /\ r2.pc \in {"reread", "done"}
    /\ r1.refreshed = "ok" /\ r2.refreshed = "ok"

\* C31: two get_valid_token calls for one device are not serialised, both
\* may ask the token endpoint with the refresh token they read.  Every
\* commit of a refresh leaves in the row the access token, the refresh
\* token, expires_at and the scope that the committing call set from its
\* answer, and once the refreshes of both calls have committed the row is
\* the one that one of the two set, never some of one and some of the other.
C31_LastWriterWins ==
    [][/\ \A d \in Devices :
             db'[d] # db[d]
                 => \E t \in Handlers :
                       /\ req[t].pc = "refresh" /\ req[t].device_id = d
                       /\ req'[t].pc # "refresh"
                       /\ SetBy(db'[d], req'[t])
       /\ \A t1, t2 \in Handlers :
             (t1 # t2 /\ BothRefreshed(req'[t1], req'[t2]))
                 => \E t \in {t1, t2} : SetBy(db'[req'[t].device_id], req'[t])]_vars

\* both calls asked with the refresh token r1 they had read from the row;
\* the first answer carried a2 and r2, the second a1 and r1, and the row
\* holds the pair of the second, which committed last
C31_Witness ==
    \E t1, t2 \in Handlers :
        /\ t1 # t2
        /\ BothRefreshed(req[t1], req[t2])
        /\ req[t1].calls = 1 /\ req[t2].calls = 1
        /\ req[t1].granted.stored = "r1" /\ req[t2].granted.stored = "r1"
        /\ req[t1].granted.access_token = "a2"
        /\ req[t1].granted.refresh_token = "r2"
        /\ req[t2].granted.access_token = "a1"
        /\ req[t2].granted.refresh_token = "r1"
        /\ db[req[t1].device_id].encrypted_access_token
             = Fernet(FIELD_ENCRYPTION_KEY, "a1")
        /\ db[req[t1].device_id].encrypted_refresh_token
             = Fernet(FIELD_ENCRYPTION_KEY, "r1")

\* The entry was in the cache within the TTL when the call of handler r
\* began: it was issued before, and it is not one the call collected as over
\* age (a collected entry stays collected until it is deleted, and a state
\* stored again is a later issue).
LiveBefore(s, cache, r) ==
    cache[s] # NoEntry /\ cache[s].id <= r.began /\ s \notin r.expired_states

\* C32: a _generate_state call collects every entry whose age exceeds the
\* TTL when it begins and returns when it has deleted them all, so that the
\* cache then holds none of them; from the moment it begins until it has
\* returned, no entry that was in the cache within the TTL when it began is
\* removed or changed.
C32_EvictsExpiredKeepsLive ==
    [][\A t \in Handlers :
          /\ (req'[t].op = "auth_url" /\ quota' < quota /\ req'[t].pc = "cleanup")
                => req'[t].expired_states
                     = {s \in StateTokens : /\ auth_states[s] # NoEntry
                                            /\ now - auth_states[s].created_at
                                                  > AUTH_STATE_TTL}
          /\ (req[t].op = "auth_url" /\ req[t].pc = "cleanup")
                => /\ \A s \in StateTokens :
                         LiveBefore(s, auth_states, req[t])
                             => auth_states'[s] = auth_states[s]
                   /\ \A s \in req[t].expired_states \ req'[t].expired_states :
                         req'[t].pc = "cleanup" => auth_states'[s] = NoEntry
                   /\ (req'[t].pc = "done" /\ req'[t].result.status = "url")
                         => req[t].expired_states = {}]_vars

\* C33: _validate_state never raises.  A process_callback whose
\* _validate_state did not obtain the device id, whatever another
\* _validate_state on the same state or a _cleanup_expired_states did in
\* between, ends with the ValueError of an invalid state, not with a KeyError
\* or a TypeError.
C33_ValidateNeverRaises ==
    \A t \in Handlers :
        (req[t].op = "callback" /\ req[t].pc = "done" /\ req[t].got = 0)
            => /\ req[t].result.status \notin {"KeyError", "TypeError"}
               /\ req[t].result = InvalidState

\* C34: the state a _generate_state call returns has no entry in the cache
\* when the call stores it, so the store replaces no entry: every entry that
\* was there stays as it was and the new one maps the state to the device of
\* the call.
C34_StateNotInCache ==
    [][\A t \in Handlers :
          (req[t].op = "auth_url" /\ req[t].pc = "cleanup"
           /\ req'[t].pc = "done" /\ req'[t].result.status = "url")
              => LET state == req'[t].result.value
                 IN /\ auth_states[state] = NoEntry
                    /\ auth_states'[state].device_id = req[t].device_id
                    /\ \A s \in Live(auth_states) :
                          auth_states'[s] = auth_states[s]]_vars

\* C35: every request to /auth/callback that carries an issued state
\* consumes it, a request with an `error` parameter included: when the route
\* has answered such a request the state has no entry any more, so a later
\* callback with the same state and a code is turned away as invalid state.
C35_ErrorCallbackConsumesState ==
    [][\A t \in Handlers :
          (/\ req'[t].op = "callback" /\ quota' < quota
           /\ req'[t].error # None
           /\ req'[t].carried # None
           /\ auth_states[req'[t].carried] # NoEntry)
              => /\ req'[t].pc = "done"
                 /\ auth_states'[req'[t].carried] = NoEntry]_vars

\* C36: get_valid_token on a device whose stored token has not expired
\* (now < expires_at - 60 s) returns at once the decrypted access token of
\* the row; it makes no request to the token endpoint and changes neither
\* the row nor the auth state cache.
C36_FreshTokenReturnedAsStored ==
    [][\A t \in Handlers :
          LET row == db[req'[t].device_id]
          IN (/\ Free(t) /\ quota' < quota
              /\ req'[t].op = "get_valid_token"
              /\ row # NoRecord
              /\ now < row.expires_at - EXPIRY_BUFFER)
                => /\ req'[t].pc = "done"
                   /\ req'[t].calls = 0
                   /\ req'[t].refreshed = "na"
                   /\ req'[t].result.status = "token"
                   /\ req'[t].result.value = row.encrypted_access_token.data
                   /\ db' = db
                   /\ auth_states' = auth_states]_vars

\* get_valid_token has returned the access token a2 that an earlier refresh
\* had stored, more than 60 s before its expiry, without a request
C36_Witness ==
    \E t \in Handlers :
        /\ req[t].op = "get_valid_token" /\ req[t].pc = "done"
        /\ req[t].calls = 0 /\ req[t].refreshed = "na"
        /\ req[t].result.status = "token" /\ req[t].result.value = "a2"
        /\ req[t].result.margin > EXPIRY_BUFFER
        /\ db[req[t].device_id].encrypted_access_token
             = Fernet(FIELD_ENCRYPTION_KEY, "a2")
        /\ auth_states["s1"] # NoEntry

\* C37: the table holds one row per device id (device_id is the primary
\* key), and a row for device D comes into being only in the step in which a
\* process_callback that obtained D from an entry of the cache commits the
\* tokens of a complete answer.  The entry it read was in the cache under the
\* state of the request, it obtained D by deleting the state, and entries
\* are stored by _generate_state for the device of the call.
\* refresh_token_for_device and get_valid_token on a device without a row
\* return False and None and leave the table as it is.
C37_RecordsComeFromCallbacks ==
    [][/\ \A d \in Devices :
             (db[d] = NoRecord /\ db'[d] # NoRecord)
                 => \E t \in Handlers :
                       /\ req[t].op = "callback" /\ req[t].pc = "exchange"
                       /\ req[t].device_id = d
                       /\ req[t].got # 0
                       /\ req[t].state_data.device_id = d
                       /\ req[t].state_data.id = req[t].got
                       /\ req'[t].pc = "done"
                       /\ req'[t].result.status = "ok"
                       /\ req'[t].upstream.complete
       /\ \A t \in Handlers :
             /\ (req[t].op = "callback" /\ ~Free(t)
                 /\ req'[t].got # req[t].got)
                   => /\ req'[t].got = req[t].state_data.id
                      /\ req'[t].device_id = req[t].state_data.device_id
                      /\ auth_states[req[t].state] # NoEntry
                      /\ auth_states'[req[t].state] = NoEntry
             /\ (req[t].op = "callback" /\ ~Free(t)
                 /\ req'[t].state_data \notin {req[t].state_data, NoEntry})
                   => req'[t].state_data = auth_states[req[t].state]
             /\ (/\ Free(t) /\ quota' < quota
                 /\ req'[t].op \in {"refresh", "get_valid_token"}
                 /\ db[req'[t].device_id] = NoRecord)
                   => /\ req'[t].pc = "done"
                      /\ req'[t].calls = 0
                      /\ req'[t].result.status
                           = IF req'[t].op = "refresh" THEN "False" ELSE "None"
                      /\ db' = db
       /\ \A s \in StateTokens :
             (auth_states'[s] # auth_states[s] /\ auth_states'[s] # NoEntry)
                 => \E t \in Handlers :
                       /\ req[t].op = "auth_url" /\ req'[t].pc = "done"
                       /\ req'[t].result = Return("url", s)
                       /\ auth_states'[s].device_id = req[t].device_id]_vars

\* the callback on the state issued for D1 has created the row of D1, and
\* /refresh on D2, which has no row, has answered False and created none
C37_Witness ==
    \E t \in Handlers :
        /\ db["D1"] # NoRecord /\ db["D2"] = NoRecord
        /\ issued[1].obtained = 1
        /\ req[t].op = "refresh" /\ req[t].pc = "done"
        /\ req[t].device_id = "D2"
        /\ req[t].result.status = "False" /\ req[t].calls = 0

\* C38: with several worker processes, a state that generate_spotify_auth_url
\* has issued in one worker and that is within the TTL is accepted by the
\* process_callback of whichever worker is handed the callback: that worker
\* obtains the device the state was issued for and goes on to the exchange.
C38_StateAcceptedByAnyWorker ==
    [][\A w, v \in Handlers :
          LET s == req'[w].state
          IN (/\ Free(w) /\ quota' < quota
              /\ req'[w].op = "callback"
              /\ auth_states[v][s] # NoEntry
              /\ now - auth_states[v][s].created_at <= AUTH_STATE_TTL)
                => /\ req'[w].pc = "exchange"
                   /\ req'[w].device_id = auth_states[v][s].device_id]_vars

\* C39: at most one pattern of COMMAND_KEYWORDS_REGEX matches a normalised
\* text, so that parse_command returns the command of the pattern that
\* matches whatever the order of the table, and None when none does; a text
\* that matches a pattern with a name does not match the bare play pattern.
C39_AtMostOnePatternMatches ==
    \A t \in Handlers :
        Parsed(t) =>
            LET words == Normalized(req[t].text)
                hits == {i \in DOMAIN Commands : Matches(Commands[i], words)}
            IN /\ Cardinality(hits) <= 1
               /\ \A i \in hits :
                     /\ req[t].command.type = "tuple"
                     /\ req[t].command.command = Commands[i]
                     /\ req[t].command.has_name = HasGroup(Commands[i])
               /\ hits = {} => req[t].command = PyNone
               /\ (\E i \in hits : HasGroup(Commands[i]))
                     => ~Matches("play", words)

\* "play album imagine" has been parsed: it begins with a word of the bare
\* play pattern and only the album pattern matches it
C39_Witness ==
    \E t \in Handlers :
        /\ Parsed(t)
        /\ req[t].text = <<"play", "album", "imagine">>
        /\ <<Normalized(req[t].text)[1]>> \in Prefixes("play")
        /\ {i \in DOMAIN Commands : Matches(Commands[i], Normalized(req[t].text))}
             = {1}
        /\ req[t].command = PyTuple("play_album", TRUE, <<"imagine">>)

====
